---- MODULE Spec2Model ----
(***************************************************************************)
(* Batch dispatch engine of the Gemini sky-removal GUI:                    *)
(*   src/gui/workers.py      ProcessingWorker (pacing, retry/backoff,      *)
(*                           cooperative cancellation, final aggregate)    *)
(*   src/gui/main_window.py  the consumer's handlers of the worker's       *)
(*                           signals (add_result, handle_error,            *)
(*                           processing_finished, cancel_processing)       *)
(*                                                                         *)
(* Time is counted in tenths of a second.  The code reads the wall clock   *)
(* only to form differences (time.time() - last_request_time, end_time -   *)
(* time.time()), so the model keeps those differences instead of the       *)
(* absolute clock.  A difference is kept up to rate_limit_delay: the only  *)
(* comparison made on it is "< rate_limit_delay".  Time passes in          *)
(* time.sleep (exactly the requested amount) and in the external call      *)
(* (any duration of CallDurations).                                        *)
(***************************************************************************)
EXTENDS Integers, Sequences, FiniteSets, TLC

(* ------------------------------ bounds -------------------------------- *)
\* Largest number of images handed to one ProcessingWorker.
MaxItems == 3
\* Polling iterations of one wait between which the other threads' steps are
\* placed one by one; the iterations after them are taken in one step.
FineSteps == 2
\* Durations (tenths of a second) the external call may take.
CallFast == 1
CallSlow == 25
CallDurations == {CallFast, CallSlow}
\* Largest number of items of a run whose errors are drawn from AllErrorTexts.
MaxClassified == 3
\* Largest number of ProcessingWorker threads started in one session.
MaxRuns == 3
\* Largest number of images selected for one session.
MaxBatch == 2
\* Largest number of FolderScannerThread threads started in one session.
MaxScans == 2
\* Largest number of outputs an earlier session has left in the folder.
MaxEarlier == 2

(* ------------------------- program constants -------------------------- *)
\* Mutant: one retry too many.
max_retries_four == 3 + 1
\* self.max_retries = 3
max_retries == 3
\* backoff_time = 30 * (2 ** (self.retry_count - 1)), in tenths of a second
BackoffBase == 300
\* _sleep_with_cancel(..., poll_interval=0.2)
PacingPoll == 2
\* _sleep_with_cancel(backoff_time, message, poll_interval=0.5)
BackoffPoll == 5
\* self.tiers: free 6.0 s, tier1 2.0 s, tier3 1.0 s
TierFree == 60
Tier1 == 20
Tier3 == 10
Tiers == {TierFree, Tier1, Tier3}

\* A text is the sequence of its words.  str(e) of the exceptions the
\* external call raises: one with a marker _handle_rate_limit_error looks
\* for, one without.
ErrorTexts == {<<"429", "Too", "Many", "Requests">>, <<"invalid", "image">>}

\* More of them: markers in capitals, in the middle of the text, and texts
\* that hold the words of a marker without holding the marker.
AllErrorTexts ==
    ErrorTexts \cup { <<"Rate", "Limit", "reached">>,
                      <<"QUOTA", "EXCEEDED">>,
                      <<"HTTP", "429">>,
                      <<"limit", "rate">>,
                      <<"Quota", "not", "Exceeded">> }

\* Messages of error_occurred.
\* f"Rate limit exceeded after {self.max_retries} retries. Please wait ..."
BudgetMessage == <<"Rate", "limit", "exceeded", "after", "3", "retries">>
\* f"Failed to process {os.path.basename(image_path)}: {str(e)}"
FailedMessage(text) == <<"Failed", "to", "process">> \o text

NoSleep == "none"
NoSummary == [shown |-> FALSE, success_count |-> 0, total_count |-> 0]

VARIABLES
    \* ---- ProcessingWorker fields and the locals of run() ----
    image_paths,              \* self.image_paths: the items, in order
    rate_limit_delay,         \* self.rate_limit_delay
    is_cancelled,             \* self.is_cancelled
    time_since_last_request,  \* time.time() - self.last_request_time
    retry_count,              \* self.retry_count
    results,                  \* results: dict item -> entry
    i,                        \* index of the for loop (1-based)
    pc,                       \* position of the worker thread
    sleep_kind,               \* which wait _sleep_with_cancel serves
    remaining,                \* end_time - time.time() of the wait
    raised,                   \* str(e) of the exception being handled
    handled,                  \* handled = self._handle_rate_limit_error(...)
    \* ---- signals emitted and not yet delivered to the GUI thread ----
    signals,
    \* ---- GeminiSkyRemovalGUI fields ----
    current_worker,           \* self.current_worker is not None
    failed_inputs,            \* self.failed_inputs: item -> message
    output_files,             \* self.output_files: item -> output path
    input_status,             \* status text of the item in the input tree
    summary,                  \* (success_count, total_count) shown at the end
    failed_order,             \* keys of self.failed_inputs, in insertion order
    process_btn,              \* self.process_btn.isEnabled()
    retry_failed_btn,         \* self.retry_failed_btn.isEnabled()
    cancel_btn,               \* self.cancel_btn.isVisible()
    file_list,                \* self.file_list: the paths Process will take
    pre_existing_results,     \* self.pre_existing_results: input -> output
    auto_save,                \* self.auto_save.isChecked()
    \* ---- the session: the workers started so far, and the file system ----
    runs,                     \* the ProcessingWorker threads started, in order
    current_run,              \* which of them self.current_worker refers to
    disk,                     \* the files that exist
    \* ---- folder selection: the FolderScannerThreads started so far ----
    input_files,              \* self.input_files: the paths the tree shows
    scanners,                 \* the FolderScannerThread threads, in order
    folder_scanner,           \* which of them self.folder_scanner refers to
    hash_order,               \* the order this process iterates the set
                              \* candidate_dirs in
    \* ---- observations of the run (history) ----
    since_dispatch,           \* time since the previous dispatch began
    last_gap,                 \* since_dispatch as seen by the latest dispatch
    dispatches,               \* dispatches of the external call for item i
    transients,               \* transient errors raised so far for item i
    backoffs,                 \* backoff sleeps completed for item i, in order
    slept,                    \* time slept so far in the current wait
    terminal_marks,           \* item -> times a result entry was written
    emitted,                  \* result and error events emitted for item i
    finished_emits,           \* times finished_all was emitted
    late_emits,               \* events emitted after finished_all
    cancel_mark,              \* where the worker was when cancel() hit a wait
    clean_run                 \* dispatches of the run while no call has raised

vars == <<image_paths, rate_limit_delay, is_cancelled, time_since_last_request,
          retry_count, results, i, pc, sleep_kind, remaining, raised, handled,
          signals, current_worker, failed_inputs, output_files, input_status,
          summary, failed_order, process_btn, retry_failed_btn, cancel_btn,
          file_list, pre_existing_results, auto_save, runs, current_run, disk,
          input_files, scanners, folder_scanner, hash_order,
          since_dispatch, last_gap, dispatches, transients, backoffs, slept,
          terminal_marks, emitted, finished_emits, late_emits, cancel_mark,
          clean_run>>

workerVars == <<image_paths, rate_limit_delay, time_since_last_request,
                retry_count, results, i, pc, sleep_kind, remaining, raised,
                handled>>
guiVars == <<current_worker, failed_inputs, output_files, input_status,
            summary, failed_order, process_btn, retry_failed_btn, cancel_btn>>
\* What the worker thread and the handlers of its signals leave alone.
scanVars == <<input_files, scanners, folder_scanner, hash_order>>
sessionVars == <<file_list, pre_existing_results, auto_save, runs, current_run,
                disk, scanVars>>
obsVars == <<since_dispatch, last_gap, dispatches, transients, backoffs, slept,
             terminal_marks, emitted, finished_emits, late_emits, clean_run>>

Items == 1..MaxItems
total == Len(image_paths)
image_path == image_paths[i]

(* ------------------------------ helpers ------------------------------- *)
Min(a, b) == IF a < b THEN a ELSE b

\* A clock difference is kept up to rate_limit_delay.
Saturate(t) == Min(t, rate_limit_delay)

\* t tenths of a second pass.
Elapse(t) ==
    /\ time_since_last_request' = Saturate(time_since_last_request + t)
    /\ since_dispatch' = Saturate(since_dispatch + t)

\* str.lower, word by word
LowerWord(w) ==
    CASE w = "Rate" -> "rate"
      [] w = "Limit" -> "limit"
      [] w = "Quota" -> "quota"
      [] w = "Exceeded" -> "exceeded"
      [] w = "QUOTA" -> "quota"
      [] w = "EXCEEDED" -> "exceeded"
      [] w = "HTTP" -> "http"
      [] w = "Too" -> "too"
      [] w = "Many" -> "many"
      [] w = "Requests" -> "requests"
      [] w = "Failed" -> "failed"
      [] w = "Old" -> "old"
      [] w = "_Gemini_Results" -> "_gemini_results"
      [] w = ".JPG" -> ".jpg"
      [] OTHER -> w
Lower(text) == [k \in DOMAIN text |-> LowerWord(text[k])]

\* marker in text
Contains(text, marker) ==
    \E k \in 0..(Len(text) - Len(marker)) :
        \A j \in 1..Len(marker) : text[k + j] = marker[j]

\* Mutant: the markers are looked for in str(error) as it is spelt.
IsRateLimitErrorAsSpelt(text) ==
    \/ Contains(text, <<"rate", "limit">>)
    \/ Contains(text, <<"quota", "exceeded">>)
    \/ Contains(text, <<"429">>)

\* error_str = str(error).lower(); "rate limit" in error_str or "quota
\* exceeded" in error_str or "429" in error_str   (lines 176-177)
IsRateLimitError(text) ==
    LET error_str == Lower(text) IN
        \/ Contains(error_str, <<"rate", "limit">>)
        \/ Contains(error_str, <<"quota", "exceeded">>)
        \/ Contains(error_str, <<"429">>)

\* Mutant: the backoff grows by 30 s per retry instead of doubling.
BackoffTimeLinear(n) == BackoffBase * n

\* backoff_time = 30 * (2 ** (self.retry_count - 1))
BackoffTime(n) == BackoffBase * (2 ^ (n - 1))

\* output_path = os.path.join(self.output_dir, f"{image_name}_gemini.jpg")
OutputPath(path) == <<"output_dir", path, "_gemini.jpg">>

Success(path) == [success |-> TRUE, output_path |-> OutputPath(path)]
Failure(text) == [success |-> FALSE, error |-> text]

\* Mutant: the dict is replaced by one holding the new entry alone.
PutReplacing(dict, key, value) == [k \in {key} |-> value]

\* A Python dict is a function on the set of its keys.
Put(dict, key, value) ==
    [k \in DOMAIN dict \cup {key} |-> IF k = key THEN value ELSE dict[k]]
Del(dict, key) == [k \in DOMAIN dict \ {key} |-> dict[k]]
EmptyDict == [k \in {} |-> 0]

NoMark == [hit |-> FALSE, wait |-> NoSleep, item |-> 0, dispatched |-> 0,
           results |-> EmptyDict, slept |-> 0,
           \* since the flag was set: dispatches begun, time slept, waits
           \* that returned True
           after_dispatches |-> 0, after_slept |-> 0, after_completed |-> 0]

\* The run while every external call has returned an image, with the number
\* of its dispatches; and the run once a call has raised.
CleanRun == [clean |-> TRUE, dispatches |-> 0]
NoCleanRun == [clean |-> FALSE, dispatches |-> 0]

\* No dispatch of the run has begun yet.
NoDispatchYet == i = 1 /\ dispatches = 0

\* An event emitted once finished_all is out is a late one.
Late(n) == IF finished_emits > 0 THEN late_emits + n ELSE late_emits

\* The orders in which a process may iterate the set candidate_dirs, whose
\* members are numbered as the code adds them: the order of a set of strings
\* follows their hashes, which are fixed for the life of the process.
InsertionOrder == <<1, 2, 3, 4>>
ReverseOrder == <<4, 3, 2, 1>>
HashOrders == {InsertionOrder, ReverseOrder}

(* -------------------------------- Init -------------------------------- *)
\* ProcessingWorker.__init__ followed by start(), as start_processing does.
Init ==
    /\ \E n \in 1..MaxItems : image_paths = [k \in 1..n |-> k]
    /\ rate_limit_delay \in Tiers
    /\ is_cancelled = FALSE
    \* last_request_time = 0 and time.time() is the Unix time: far apart
    /\ time_since_last_request = rate_limit_delay
    /\ retry_count = 0
    /\ results = EmptyDict
    /\ i = 1
    /\ pc = "for"
    /\ sleep_kind = NoSleep
    /\ remaining = 0
    /\ raised = <<>>
    /\ handled = FALSE
    /\ signals = <<>>
    /\ current_worker = TRUE
    /\ failed_inputs = EmptyDict
    /\ output_files = EmptyDict
    \* start_processing: update_input_status(path, "Queued") for each path
    /\ input_status = [k \in DOMAIN image_paths |-> "Queued"]
    /\ summary = NoSummary
    \* start_processing: clear_results() empties failed_inputs and disables
    \* Retry Failed; Process is disabled and Cancel shown (line 522)
    /\ failed_order = <<>>
    /\ process_btn = FALSE
    /\ retry_failed_btn = FALSE
    /\ cancel_btn = TRUE
    /\ file_list = image_paths
    /\ pre_existing_results = EmptyDict
    /\ auto_save = TRUE
    /\ runs = <<>>
    /\ current_run = 0
    /\ disk = {}
    /\ input_files = image_paths
    /\ scanners = <<>>
    /\ folder_scanner = 0
    /\ hash_order = InsertionOrder
    /\ since_dispatch = rate_limit_delay
    /\ last_gap = rate_limit_delay
    /\ dispatches = 0
    /\ transients = 0
    /\ backoffs = <<>>
    /\ slept = 0
    /\ terminal_marks = [k \in Items |-> 0]
    /\ emitted = <<>>
    /\ finished_emits = 0
    /\ late_emits = 0
    /\ cancel_mark = NoMark
    /\ clean_run = CleanRun

(* ------------------------- ProcessingWorker --------------------------- *)
\* progress_updated.emit(...): the consumer only shows it.
EmitProgress == late_emits' = Late(1)

\* Lines 207-210: the progress event, the output path, and the external call
\* gemini_sky_removal(image_path, output_path, ...) begins.
Dispatch ==
    /\ pc' = "in_flight"
    /\ dispatches' = dispatches + 1
    /\ last_gap' = IF NoDispatchYet THEN last_gap ELSE since_dispatch
    /\ since_dispatch' = 0
    /\ cancel_mark' =
          [cancel_mark EXCEPT
              !.dispatched = IF cancel_mark.hit THEN @ + 1 ELSE @,
              !.after_dispatches = IF is_cancelled THEN @ + 1 ELSE @]
    /\ clean_run' = IF clean_run.clean
                      THEN [clean_run EXCEPT !.dispatches = @ + 1]
                      ELSE clean_run
    /\ EmitProgress

\* _sleep_with_cancel(total_seconds, message, poll_interval), lines 151-155:
\* nothing to sleep returns at once, otherwise the message is emitted and the
\* polling loop is entered.
EnterSleep(kind, total_seconds) ==
    /\ sleep_kind' = kind
    /\ remaining' = total_seconds
    /\ slept' = 0
    /\ IF total_seconds <= 0
         THEN pc' = "sleep_return" /\ UNCHANGED late_emits
         ELSE pc' = "sleep_check" /\ EmitProgress

\* Mutant: the counter is carried over from the previous item.
KeepRetryCount == UNCHANGED retry_count

\* self.retry_count = 0   (line 199)
ResetRetryCount == retry_count' = 0

\* Mutant: the loop gives up one attempt early.
WhileConditionStrict == retry_count < max_retries

\* while self.retry_count <= self.max_retries   (line 200)
WhileCondition == retry_count <= max_retries

\* for i, image_path in enumerate(self.image_paths, 1) / lines 197-199
ForNext ==
    /\ pc = "for"
    /\ IF i > total \/ is_cancelled
         THEN /\ pc' = "finish"
              /\ UNCHANGED <<retry_count, dispatches, transients, backoffs,
                             emitted>>
         ELSE /\ pc' = "while"
              /\ ResetRetryCount
              /\ IF i > 1
                   THEN /\ dispatches' = 0
                        /\ transients' = 0
                        /\ backoffs' = <<>>
                        /\ emitted' = <<>>
                   ELSE UNCHANGED <<dispatches, transients, backoffs, emitted>>
    /\ UNCHANGED <<image_paths, rate_limit_delay, is_cancelled,
                   time_since_last_request, results, i, sleep_kind, remaining,
                   raised, handled, signals, cancel_mark>>
    /\ UNCHANGED guiVars
    /\ UNCHANGED sessionVars
    /\ UNCHANGED <<since_dispatch, last_gap, slept, terminal_marks,
                   finished_emits, late_emits>>
    /\ UNCHANGED clean_run

\* while self.retry_count <= self.max_retries (line 200), and for the first
\* item the dispatch that follows without any wait (line 202).
WhileFirstItem ==
    /\ pc = "while"
    /\ i = 1
    /\ IF WhileCondition
         THEN Dispatch
         ELSE pc' = "after_while"
              /\ UNCHANGED <<dispatches, last_gap, since_dispatch, late_emits,
                             cancel_mark, clean_run>>
    /\ UNCHANGED <<image_paths, rate_limit_delay, is_cancelled,
                   time_since_last_request, retry_count, results, i,
                   sleep_kind, remaining, raised, handled, signals>>
    /\ UNCHANGED guiVars
    /\ UNCHANGED sessionVars
    /\ UNCHANGED <<transients, backoffs, slept, terminal_marks, emitted,
                   finished_emits>>

\* while ... (line 200) and, for i > 1, _wait_for_rate_limit up to its sleep
\* (lines 165-170) or, when nothing is to be waited, to its end (172-173).
WhileWaitForRateLimit ==
    /\ pc = "while"
    /\ i > 1
    /\ IF ~WhileCondition
         THEN /\ pc' = "after_while"
              /\ UNCHANGED <<time_since_last_request, sleep_kind, remaining,
                             slept, late_emits>>
         ELSE IF time_since_last_request < rate_limit_delay
                THEN /\ EnterSleep("pacing",
                                   rate_limit_delay - time_since_last_request)
                     /\ UNCHANGED time_since_last_request
                ELSE /\ time_since_last_request' = 0
                     /\ pc' = "cancel_check"
                     /\ UNCHANGED <<sleep_kind, remaining, slept, late_emits>>
    /\ UNCHANGED <<image_paths, rate_limit_delay, is_cancelled, retry_count,
                   results, i, raised, handled, signals, cancel_mark>>
    /\ UNCHANGED guiVars
    /\ UNCHANGED sessionVars
    /\ UNCHANGED <<since_dispatch, last_gap, dispatches, transients, backoffs,
                   terminal_marks, emitted, finished_emits>>
    /\ UNCHANGED clean_run

PollInterval == IF sleep_kind = "pacing" THEN PacingPoll ELSE BackoffPoll

\* Mutant: the polling loop does not look at the flag.
WhileTrue == TRUE

\* while not self.is_cancelled   (line 156)
WhileNotCancelled == ~is_cancelled

\* _sleep_with_cancel, lines 156-159: the loop's test of the flag and of the
\* time left.
SleepCheck ==
    /\ pc = "sleep_check"
    /\ pc' = IF ~WhileNotCancelled \/ remaining <= 0 THEN "sleep_return"
                                                     ELSE "sleep_inc"
    /\ UNCHANGED <<image_paths, rate_limit_delay, is_cancelled,
                   time_since_last_request, retry_count, results, i,
                   sleep_kind, remaining, raised, handled, signals,
                   cancel_mark>>
    /\ UNCHANGED guiVars
    /\ UNCHANGED sessionVars
    /\ UNCHANGED obsVars

\* _sleep_with_cancel, line 160: time.sleep(min(poll_interval, remaining))
SleepInc ==
    /\ pc = "sleep_inc"
    /\ slept < FineSteps * PollInterval \/ is_cancelled
    /\ LET d == Min(PollInterval, remaining) IN
        /\ remaining' = remaining - d
        /\ slept' = slept + d
        /\ Elapse(d)
    /\ cancel_mark' =
          [cancel_mark EXCEPT
              !.after_slept = IF is_cancelled
                                THEN @ + Min(PollInterval, remaining) ELSE @]
    /\ pc' = "sleep_check"
    /\ UNCHANGED <<image_paths, rate_limit_delay, is_cancelled, retry_count,
                   results, i, sleep_kind, raised, handled, signals>>
    /\ UNCHANGED guiVars
    /\ UNCHANGED sessionVars
    /\ UNCHANGED <<last_gap, dispatches, transients, backoffs, terminal_marks,
                   emitted, finished_emits, late_emits>>
    /\ UNCHANGED clean_run

\* Time slept by the loop of lines 156-160 from `left` on, when the flag
\* stays clear: time.sleep(min(poll_interval, remaining)) sleeps poll while
\* remaining >= poll (left \div poll iterations), then once what is left.
SleepLoop(left, poll) ==
    IF left <= 0 THEN 0
    ELSE LET full == left \div poll
             last == left - full * poll
         IN  full * Min(poll, left) + Min(poll, last)

\* The rest of the polling loop, run with no step of another thread between
\* its iterations: the flag is clear when it starts and stays so.
SleepRest ==
    /\ pc = "sleep_inc"
    /\ slept >= FineSteps * PollInterval
    /\ ~is_cancelled
    /\ LET d == SleepLoop(remaining, PollInterval) IN
        /\ remaining' = remaining - d
        /\ slept' = slept + d
        /\ Elapse(d)
    /\ pc' = "sleep_check"
    /\ UNCHANGED <<image_paths, rate_limit_delay, is_cancelled, retry_count,
                   results, i, sleep_kind, raised, handled, signals,
                   cancel_mark>>
    /\ UNCHANGED guiVars
    /\ UNCHANGED sessionVars
    /\ UNCHANGED <<last_gap, dispatches, transients, backoffs, terminal_marks,
                   emitted, finished_emits, late_emits>>
    /\ UNCHANGED clean_run

\* Mutant: the wait reports that it ran to its end whatever the flag says.
SleepCompleted == TRUE

\* _sleep_with_cancel, line 161: return not self.is_cancelled
SleepResult == ~is_cancelled

\* A wait that returns True with the flag set has run to completion after the
\* cancellation.
SleepReturns ==
    cancel_mark' =
        [cancel_mark EXCEPT
            !.after_completed = IF SleepResult /\ is_cancelled THEN @ + 1
                                                               ELSE @]

\* The pacing wait ends: _wait_for_rate_limit lines 170-173, and the break of
\* run (lines 203-204) when it returned False.
WaitForRateLimitReturn ==
    /\ pc = "sleep_return"
    /\ sleep_kind = "pacing"
    /\ IF SleepResult
         THEN time_since_last_request' = 0 /\ pc' = "cancel_check"
         ELSE UNCHANGED time_since_last_request /\ pc' = "after_while"
    /\ sleep_kind' = NoSleep
    /\ remaining' = 0
    /\ slept' = 0
    /\ SleepReturns
    /\ UNCHANGED <<image_paths, rate_limit_delay, is_cancelled, retry_count,
                   results, i, raised, handled, signals>>
    /\ UNCHANGED guiVars
    /\ UNCHANGED sessionVars
    /\ UNCHANGED <<since_dispatch, last_gap, dispatches, transients, backoffs,
                   terminal_marks, emitted, finished_emits, late_emits>>
    /\ UNCHANGED clean_run

\* Lines 205-206: the flag is read once more after the wait.
CancelCheck ==
    /\ pc = "cancel_check"
    /\ pc' = IF is_cancelled THEN "after_while" ELSE "dispatch"
    /\ UNCHANGED <<image_paths, rate_limit_delay, is_cancelled,
                   time_since_last_request, retry_count, results, i,
                   sleep_kind, remaining, raised, handled, signals,
                   cancel_mark>>
    /\ UNCHANGED guiVars
    /\ UNCHANGED sessionVars
    /\ UNCHANGED obsVars

\* Lines 207-210: then the item is dispatched, whatever has happened to the
\* flag since.
DispatchAfterCheck ==
    /\ pc = "dispatch"
    /\ Dispatch
    /\ UNCHANGED <<image_paths, rate_limit_delay, is_cancelled,
                   time_since_last_request, retry_count, results, i,
                   sleep_kind, remaining, raised, handled, signals>>
    /\ UNCHANGED guiVars
    /\ UNCHANGED sessionVars
    /\ UNCHANGED <<transients, backoffs, slept, terminal_marks, emitted,
                   finished_emits>>

\* The external call returns an image: lines 216-222.
CallSucceeds ==
    /\ pc = "in_flight"
    /\ \E d \in CallDurations : Elapse(d)
    /\ signals' = Append(signals, [sig |-> "image_processed",
                                   path |-> image_path,
                                   output_path |-> OutputPath(image_path)])
    /\ emitted' = Append(emitted, [sig |-> "image_processed",
                                   message |-> OutputPath(image_path)])
    /\ late_emits' = Late(1)
    /\ results' = Put(results, image_path, Success(image_path))
    /\ terminal_marks' = [terminal_marks EXCEPT ![i] = @ + 1]
    /\ pc' = "after_while"
    /\ UNCHANGED <<image_paths, rate_limit_delay, is_cancelled, retry_count, i,
                   sleep_kind, remaining, raised, handled, cancel_mark>>
    /\ UNCHANGED guiVars
    /\ UNCHANGED sessionVars
    /\ UNCHANGED <<last_gap, dispatches, transients, backoffs, slept,
                   finished_emits>>
    /\ UNCHANGED clean_run

\* The external call raises: control enters the except clause (line 223).
CallRaisesWith(texts) ==
    /\ pc = "in_flight"
    /\ \E d \in CallDurations : Elapse(d)
    /\ \E text \in texts : raised' = text
    /\ clean_run' = NoCleanRun
    /\ pc' = "except"
    /\ UNCHANGED <<image_paths, rate_limit_delay, is_cancelled, retry_count,
                   results, i, sleep_kind, remaining, handled, signals,
                   cancel_mark>>
    /\ UNCHANGED guiVars
    /\ UNCHANGED sessionVars
    /\ UNCHANGED <<last_gap, dispatches, transients, backoffs, slept,
                   terminal_marks, emitted, finished_emits, late_emits>>

CallRaises == CallRaisesWith(ErrorTexts)

\* self.error_occurred.emit(message, image_path)
EmitError(message) ==
    /\ signals' = Append(signals, [sig |-> "error_occurred",
                                   path |-> image_path, message |-> message])
    /\ emitted' = Append(emitted, [sig |-> "error_occurred",
                                   message |-> message])
    /\ late_emits' = Late(1)

\* Mutant: self.retry_count =+ 1, the counter is set instead of incremented.
NextRetryCountAssigned == 0 + 1

\* self.retry_count += 1   (line 178)
NextRetryCount == retry_count + 1

\* Mutant: the handler reports an error it did not recognise as handled.
ReturnTrue == handled' = TRUE

\* return False   (line 191): the error is none of the rate-limit kind
ReturnFalse == handled' = FALSE

\* Lines 224-226 and _handle_rate_limit_error up to its sleep or its return
\* (lines 176-191).
Except ==
    /\ pc = "except"
    /\ IF is_cancelled
         THEN /\ pc' = "after_while"
              /\ UNCHANGED <<retry_count, transients, handled, sleep_kind,
                             remaining, slept, signals, emitted, late_emits>>
         ELSE IF IsRateLimitError(raised)
                THEN /\ retry_count' = NextRetryCount
                     /\ transients' = transients + 1
                     /\ IF retry_count' <= max_retries
                          THEN /\ EnterSleep("backoff", BackoffTime(retry_count'))
                               /\ UNCHANGED <<handled, signals, emitted>>
                          ELSE /\ EmitError(BudgetMessage)
                               /\ handled' = FALSE
                               /\ pc' = "handled"
                               /\ UNCHANGED <<sleep_kind, remaining, slept>>
                ELSE /\ ReturnFalse
                     /\ pc' = "handled"
                     /\ UNCHANGED <<retry_count, transients, sleep_kind,
                                    remaining, slept, signals, emitted,
                                    late_emits>>
    /\ UNCHANGED <<image_paths, rate_limit_delay, is_cancelled,
                   time_since_last_request, results, i, raised, cancel_mark>>
    /\ UNCHANGED guiVars
    /\ UNCHANGED sessionVars
    /\ UNCHANGED <<since_dispatch, last_gap, dispatches, backoffs,
                   terminal_marks, finished_emits>>
    /\ UNCHANGED clean_run

\* The backoff sleep ends: _handle_rate_limit_error lines 182-184.
BackoffReturn ==
    /\ pc = "sleep_return"
    /\ sleep_kind = "backoff"
    /\ handled' = SleepResult
    /\ backoffs' = IF remaining <= 0
                     THEN Append(backoffs, slept)
                     ELSE backoffs
    /\ pc' = "handled"
    /\ sleep_kind' = NoSleep
    /\ remaining' = 0
    /\ slept' = 0
    /\ SleepReturns
    /\ UNCHANGED <<image_paths, rate_limit_delay, is_cancelled,
                   time_since_last_request, retry_count, results, i, raised,
                   signals>>
    /\ UNCHANGED guiVars
    /\ UNCHANGED sessionVars
    /\ UNCHANGED <<since_dispatch, last_gap, dispatches, transients,
                   terminal_marks, emitted, finished_emits, late_emits>>
    /\ UNCHANGED clean_run

\* Mutant: a failure is reported but not recorded.
RecordFailureMissing == UNCHANGED <<results, terminal_marks>>

\* results[image_path] = {"success": False, "error": str(e)}   (line 233)
RecordFailure ==
    /\ results' = Put(results, image_path, Failure(raised))
    /\ terminal_marks' = [terminal_marks EXCEPT ![i] = @ + 1]

\* Lines 227-234: after the handler returned.
AfterHandler ==
    /\ pc = "handled"
    /\ IF is_cancelled
         THEN /\ pc' = "after_while"
              /\ UNCHANGED <<results, terminal_marks, signals, emitted,
                             late_emits>>
         ELSE IF handled
                THEN /\ pc' = "while"
                     /\ UNCHANGED <<results, terminal_marks, signals, emitted,
                                    late_emits>>
                ELSE /\ EmitError(FailedMessage(raised))
                     /\ RecordFailure
                     /\ pc' = "after_while"
    /\ raised' = <<>>
    /\ handled' = FALSE
    /\ UNCHANGED <<image_paths, rate_limit_delay, is_cancelled,
                   time_since_last_request, retry_count, i, sleep_kind,
                   remaining, cancel_mark>>
    /\ UNCHANGED guiVars
    /\ UNCHANGED sessionVars
    /\ UNCHANGED <<since_dispatch, last_gap, dispatches, transients, backoffs,
                   slept, finished_emits>>
    /\ UNCHANGED clean_run

\* Mutant: the for loop is also left when the item has failed.
BreakOnFailure ==
    is_cancelled \/ (image_path \in DOMAIN results /\ ~results[image_path].success)

\* if self.is_cancelled: break   (lines 235-236)
BreakIfCancelled == is_cancelled

\* Lines 235-236, and the step of the for loop to the next item.
AfterWhile ==
    /\ pc = "after_while"
    /\ IF BreakIfCancelled
         THEN pc' = "finish" /\ UNCHANGED i
         ELSE pc' = "for" /\ i' = i + 1
    /\ raised' = <<>>
    /\ UNCHANGED <<image_paths, rate_limit_delay, is_cancelled,
                   time_since_last_request, retry_count, results, sleep_kind,
                   remaining, handled, signals, cancel_mark>>
    /\ UNCHANGED guiVars
    /\ UNCHANGED sessionVars
    /\ UNCHANGED obsVars

\* Mutant: a cancelled run returns without its final events.
FinishUnlessCancelled ==
    /\ pc = "finish"
    /\ IF is_cancelled
         THEN UNCHANGED <<signals, late_emits, finished_emits>>
         ELSE /\ signals' = Append(signals, [sig |-> "finished_all",
                                             results |-> results])
              /\ late_emits' = Late(2)
              /\ finished_emits' = finished_emits + 1
    /\ pc' = "done"
    /\ UNCHANGED <<image_paths, rate_limit_delay, is_cancelled,
                   time_since_last_request, retry_count, results, i,
                   sleep_kind, remaining, raised, handled, cancel_mark>>
    /\ UNCHANGED guiVars
    /\ UNCHANGED sessionVars
    /\ UNCHANGED <<since_dispatch, last_gap, dispatches, transients, backoffs,
                   slept, terminal_marks, emitted>>
    /\ UNCHANGED clean_run

\* Lines 237-238: the last progress event and finished_all.emit(results).
Finish ==
    /\ pc = "finish"
    /\ signals' = Append(signals, [sig |-> "finished_all", results |-> results])
    /\ late_emits' = Late(2)
    /\ finished_emits' = finished_emits + 1
    /\ pc' = "done"
    /\ UNCHANGED <<image_paths, rate_limit_delay, is_cancelled,
                   time_since_last_request, retry_count, results, i,
                   sleep_kind, remaining, raised, handled, cancel_mark>>
    /\ UNCHANGED guiVars
    /\ UNCHANGED sessionVars
    /\ UNCHANGED <<since_dispatch, last_gap, dispatches, transients, backoffs,
                   slept, terminal_marks, emitted>>
    /\ UNCHANGED clean_run

(* ------------------------ GeminiSkyRemovalGUI ------------------------- *)
\* Mutant: cancel() sets an attribute nothing reads.
cancel_wrong_attribute == UNCHANGED is_cancelled

\* ProcessingWorker.cancel
cancel == is_cancelled' = TRUE

InWait == pc \in {"sleep_check", "sleep_inc", "sleep_return"}

\* cancel_processing: the Cancel button, shown while a worker is current.
CancelProcessing ==
    /\ current_worker
    /\ cancel
    /\ cancel_mark' = IF InWait /\ ~cancel_mark.hit
                        THEN [cancel_mark EXCEPT
                                !.hit = TRUE, !.wait = sleep_kind, !.item = i,
                                !.dispatched = 0, !.results = results,
                                !.slept = slept]
                        ELSE cancel_mark
    /\ UNCHANGED workerVars
    /\ UNCHANGED signals
    /\ UNCHANGED guiVars
    /\ UNCHANGED sessionVars
    /\ UNCHANGED obsVars

Delivered(sig) == signals # <<>> /\ Head(signals).sig = sig

\* The keys of a dict keep their insertion order: a new key goes last, a
\* deleted one leaves the others in place.
KeyAdded(order, key) ==
    IF \E k \in DOMAIN order : order[k] = key THEN order
                                                ELSE Append(order, key)
KeyDropped(order, key) ==
    LET Other(x) == x # key IN SelectSeq(order, Other)

\* update_retry_button_state: setEnabled(bool(self.failed_inputs))
RetryState(failed) == failed # EmptyDict

\* self.update_input_status(path, status): the item of the tree that shows
\* the path, when there is one
StatusSet(status_of, path, status) ==
    IF path \in DOMAIN status_of THEN [status_of EXCEPT ![path] = status]
                                  ELSE status_of

\* add_result, connected to image_processed
AddResult ==
    /\ Delivered("image_processed")
    /\ LET s == Head(signals) IN
        /\ output_files' = Put(output_files, s.path, s.output_path)
        /\ failed_inputs' = Del(failed_inputs, s.path)
        /\ failed_order' = KeyDropped(failed_order, s.path)
        /\ retry_failed_btn' = IF s.path \in DOMAIN failed_inputs
                                 THEN RetryState(failed_inputs')
                                 ELSE retry_failed_btn
        /\ input_status' = StatusSet(input_status, s.path, "Done")
    /\ signals' = Tail(signals)
    /\ UNCHANGED <<current_worker, summary, is_cancelled, cancel_mark,
                   process_btn, cancel_btn>>
    /\ UNCHANGED workerVars
    /\ UNCHANGED obsVars
    /\ UNCHANGED sessionVars

\* handle_error, connected to error_occurred
HandleError ==
    /\ Delivered("error_occurred")
    /\ LET s == Head(signals) IN
        /\ failed_inputs' = Put(failed_inputs, s.path, s.message)
        /\ failed_order' = KeyAdded(failed_order, s.path)
        /\ retry_failed_btn' = RetryState(failed_inputs')
        /\ input_status' = StatusSet(input_status, s.path, "Failed")
    /\ signals' = Tail(signals)
    /\ UNCHANGED <<current_worker, output_files, summary, is_cancelled,
                   cancel_mark, process_btn, cancel_btn>>
    /\ UNCHANGED workerVars
    /\ UNCHANGED obsVars
    /\ UNCHANGED sessionVars

\* processing_finished, connected to finished_all
ProcessingFinished ==
    /\ Delivered("finished_all")
    /\ LET r == Head(signals).results IN
        summary' = [shown |-> TRUE,
                    success_count |->
                        Cardinality({k \in DOMAIN r : r[k].success}),
                    total_count |-> Cardinality(DOMAIN r)]
    /\ process_btn' = TRUE
    /\ cancel_btn' = FALSE
    /\ current_worker' = FALSE
    /\ retry_failed_btn' = RetryState(failed_inputs)
    /\ signals' = Tail(signals)
    /\ UNCHANGED <<failed_inputs, failed_order, output_files, input_status,
                   is_cancelled, cancel_mark>>
    /\ UNCHANGED workerVars
    /\ UNCHANGED obsVars
    /\ UNCHANGED sessionVars

(* ------------------------------- paths -------------------------------- *)
\* A name is the sequence of its parts ("p" "_gemini" stands for p_gemini), a
\* directory the sequence of the names on the way to it, and a file a
\* directory, the name before the extension, and the extension.
File(dir, stem, ext) == [dir |-> dir, stem |-> stem, ext |-> ext]

\* os.path.join(dir, name), os.path.dirname(dir), os.path.basename(dir)
Join(dir, name) == Append(dir, name)
Parent(dir) == SubSeq(dir, 1, Len(dir) - 1)
BaseName(dir) == dir[Len(dir)]

Home == <<<<"home">>>>
Photos == Join(Home, <<"photos">>)
FolderA == Join(Photos, <<"a">>)
\* os.getcwd()
Cwd == <<<<"cwd">>>>

\* The images of the session's folder, as sorted() orders their paths:
\* photos/a/p.jpg, photos/a/q.jpg, photos/a/q.png, photos/q.jpg
AllImages == << File(FolderA, <<"p">>, ".jpg"), File(FolderA, <<"q">>, ".jpg"),
                File(FolderA, <<"q">>, ".png"), File(Photos, <<"q">>, ".jpg") >>

\* The images at the places of S, in order.
Sorted(S) ==
    [n \in 1..Cardinality(S) |->
        AllImages[CHOOSE k \in S : Cardinality({j \in S : j < k}) = n - 1]]

\* The output directory handed around: None, "" or a directory.
NoneDir == [is_none |-> TRUE, dir |-> <<>>]
Dir(d) == [is_none |-> FALSE, dir |-> d]
EmptyString == Dir(<<>>)
\* if output_dir:
Truthy(output_dir) == ~output_dir.is_none /\ output_dir.dir # <<>>

\* os.path.join(dir, f"{image_name}_gemini.jpg")
GeminiJpg(dir, image_name) == File(dir, image_name \o <<"_gemini">>, ".jpg")

\* get_expected_output_path   (main_window.py, lines 401-408)
get_expected_output_path(path, output_dir) ==
    LET image_name == path.stem IN
        IF Truthy(output_dir)
          THEN GeminiJpg(output_dir.dir, image_name)
          ELSE IF output_dir = EmptyString
                 THEN GeminiJpg(Cwd, image_name)
                 ELSE GeminiJpg(Join(path.dir,
                                     image_name \o <<"_gemini_results">>),
                                image_name)

\* start_processing, lines 472-483: the output directory when Auto-save is
\* checked
AutoOutputDir(paths) ==
    IF Len(paths) = 1
      THEN Join(paths[1].dir,
                paths[1].stem \o <<"_gemini_results">>)
      ELSE LET input_dirs == {paths[k].dir : k \in DOMAIN paths}
               first_input_dir == paths[1].dir
           IN  IF Cardinality(input_dirs) = 1
                 THEN Join(Parent(first_input_dir),
                           BaseName(first_input_dir) \o <<"_gemini_results">>)
                 ELSE Join(Parent(first_input_dir), <<"gemini_results">>)

\* ProcessingWorker(self.sky_remover, image_paths, output_dir or "", ...)
OrEmptyString(output_dir) ==
    IF Truthy(output_dir) THEN output_dir ELSE EmptyString

\* ProcessingWorker.run, lines 208-209: os.path.join(self.output_dir,
\* f"{image_name}_gemini.jpg"); a relative path names a file of the current
\* directory.
WorkerOutputPath(output_dir, path) ==
    GeminiJpg(IF output_dir.dir = <<>> THEN Cwd ELSE output_dir.dir,
              path.stem)

(* ------------------------------ session ------------------------------- *)
\* A ProcessingWorker as the session sees it: the events it emits, item by
\* item, and the files it writes.
\* Kept beside it: the directory the outputs were looked for in, whether
\* the run is a retry, output_files as it was when the run was asked for, and
\* the images that had succeeded before the latest scan of the folder, when
\* that scan is over.
Worker(paths, output_dir, checked_dir, preserve_outputs) ==
    [image_paths |-> paths, output_dir |-> output_dir,
     checked_dir |-> checked_dir, i |-> 1, is_cancelled |-> FALSE,
     results |-> EmptyDict, finished |-> FALSE, retry |-> preserve_outputs,
     outputs_before |-> output_files,
     rescanned |-> IF folder_scanner # 0 /\ scanners[folder_scanner].finished
                     THEN scanners[folder_scanner].succeeded_before
                     ELSE {}]

\* restore_preexisting_results   (lines 315-324)
Restored(outputs) ==
    LET kept == {p \in DOMAIN pre_existing_results :
                    pre_existing_results[p] \in disk}
    IN  [p \in DOMAIN outputs \cup kept |->
            IF p \in kept THEN pre_existing_results[p] ELSE outputs[p]]

\* start_processing(image_paths=..., preserve_outputs=...)   (lines 463-531)
StartProcessingWith(paths, preserve_outputs) ==
    LET output_dir == IF auto_save THEN Dir(AutoOutputDir(paths)) ELSE NoneDir
        \* lines 496-499: clear_results() and restore_preexisting_results()
        outputs == IF preserve_outputs THEN output_files
                                       ELSE Restored(EmptyDict)
        failed == IF preserve_outputs THEN failed_inputs ELSE EmptyDict
        order == IF preserve_outputs THEN failed_order ELSE <<>>
        \* filter_existing_outputs   (lines 410-418)
        Expected(path) == get_expected_output_path(path, output_dir)
        skipped == {paths[k] : k \in {j \in DOMAIN paths :
                                        Expected(paths[j]) \in disk}}
        IsPending(path) == path \notin skipped
        pending_paths == SelectSeq(paths, IsPending)
        queued == {paths[k] : k \in DOMAIN paths} \ skipped
    IN  \* lines 502-509
        /\ output_files' = [p \in DOMAIN outputs \cup skipped |->
                                IF p \in DOMAIN outputs THEN outputs[p]
                                                        ELSE Expected(p)]
        /\ failed_inputs' = [p \in DOMAIN failed \ skipped |-> failed[p]]
        /\ failed_order' = SelectSeq(order, IsPending)
        /\ retry_failed_btn' = IF skipped # {} THEN RetryState(failed_inputs')
                                               ELSE FALSE
        /\ input_status' =
              [p \in DOMAIN input_status |->
                  IF p \in skipped THEN "Skipped"
                  ELSE IF p \in queued THEN "Queued" ELSE input_status[p]]
        \* lines 515-531
        /\ IF pending_paths = <<>>
             THEN UNCHANGED <<runs, current_run, current_worker, process_btn,
                              cancel_btn>>
             ELSE /\ runs' = Append(runs, Worker(pending_paths,
                                                 OrEmptyString(output_dir),
                                                 output_dir, preserve_outputs))
                  /\ current_run' = Len(runs) + 1
                  /\ current_worker' = TRUE
                  /\ process_btn' = FALSE
                  /\ cancel_btn' = TRUE

runVars == <<workerVars, is_cancelled, obsVars, cancel_mark>>

\* The Process button: start_processing()
StartProcessing ==
    /\ process_btn
    /\ Len(runs) < MaxRuns
    /\ file_list # <<>>
    /\ StartProcessingWith(file_list, FALSE)
    /\ UNCHANGED <<file_list, pre_existing_results, auto_save, disk, signals,
                   summary>>
    /\ UNCHANGED scanVars
    /\ UNCHANGED runVars

\* The Retry Failed button: retry_failed_images   (lines 369-385); every
\* failed input still exists.
RetryFailedImages ==
    /\ retry_failed_btn
    /\ Len(runs) < MaxRuns
    /\ failed_inputs # EmptyDict
    /\ StartProcessingWith(failed_order, TRUE)
    /\ UNCHANGED <<file_list, pre_existing_results, auto_save, disk, signals,
                   summary>>
    /\ UNCHANGED scanVars
    /\ UNCHANGED runVars

\* The Cancel button: cancel_processing   (lines 533-535)
CancelCurrentWorker ==
    /\ cancel_btn
    /\ current_worker
    /\ runs' = [runs EXCEPT ![current_run].is_cancelled = TRUE]
    /\ UNCHANGED <<file_list, pre_existing_results, auto_save, current_run,
                   disk, signals>>
    /\ UNCHANGED scanVars
    /\ UNCHANGED guiVars
    /\ UNCHANGED runVars

\* Worker w finishes its next item with an image: lines 216-222, and the file
\* the external call wrote.
RunItemSucceeds(w) ==
    LET r == runs[w]
        path == r.image_paths[r.i]
        output_path == WorkerOutputPath(r.output_dir, path)
    IN  /\ ~r.finished
        /\ ~r.is_cancelled
        /\ r.i <= Len(r.image_paths)
        /\ signals' = Append(signals, [sig |-> "image_processed",
                                       path |-> path,
                                       output_path |-> output_path])
        /\ disk' = disk \cup {output_path}
        /\ runs' = [runs EXCEPT
                        ![w].i = @ + 1,
                        ![w].results =
                            Put(@, path, [success |-> TRUE,
                                          output_path |-> output_path])]
        /\ UNCHANGED <<file_list, pre_existing_results, auto_save,
                       current_run>>
        /\ UNCHANGED scanVars
        /\ UNCHANGED guiVars
        /\ UNCHANGED runVars

\* The error events of an item that fails with str(e) = text: the budget
\* message first when the error is of the rate-limit kind (lines 186-189),
\* then "Failed to process ..." (lines 231-232).
ErrorEvents(path, text) ==
    LET failed_event == [sig |-> "error_occurred", path |-> path,
                         message |-> FailedMessage(text)]
        budget_event == [sig |-> "error_occurred", path |-> path,
                         message |-> BudgetMessage]
    IN  IF IsRateLimitError(text) THEN <<budget_event, failed_event>>
                                  ELSE <<failed_event>>

\* str(e) of the errors that end an item in a session.
SessionErrorTexts == {<<"invalid", "image">>}

\* Worker w gives up its next item: lines 223-234.
RunItemFails(w) ==
    LET r == runs[w]
        path == r.image_paths[r.i]
    IN  /\ ~r.finished
        /\ ~r.is_cancelled
        /\ r.i <= Len(r.image_paths)
        /\ \E text \in SessionErrorTexts :
            /\ signals' = signals \o ErrorEvents(path, text)
            /\ runs' = [runs EXCEPT ![w].i = @ + 1,
                                    ![w].results = Put(@, path, Failure(text))]
        /\ UNCHANGED <<file_list, pre_existing_results, auto_save,
                       current_run, disk>>
        /\ UNCHANGED scanVars
        /\ UNCHANGED guiVars
        /\ UNCHANGED runVars

\* Worker w leaves its loop, by completion or by cancellation: lines 237-238.
RunFinishes(w) ==
    LET r == runs[w] IN
        /\ ~r.finished
        /\ r.is_cancelled \/ r.i > Len(r.image_paths)
        /\ signals' = Append(signals, [sig |-> "finished_all",
                                       results |-> r.results])
        /\ runs' = [runs EXCEPT ![w].finished = TRUE]
        /\ UNCHANGED <<file_list, pre_existing_results, auto_save,
                       current_run, disk>>
        /\ UNCHANGED scanVars
        /\ UNCHANGED guiVars
        /\ UNCHANGED runVars

\* The detailed worker of Spec is not part of the session.
NoDetailedWorker ==
    /\ image_paths = <<>>
    /\ rate_limit_delay = TierFree
    /\ is_cancelled = FALSE
    /\ time_since_last_request = TierFree
    /\ retry_count = 0
    /\ results = EmptyDict
    /\ i = 1
    /\ pc = "done"
    /\ sleep_kind = NoSleep
    /\ remaining = 0
    /\ raised = <<>>
    /\ handled = FALSE
    /\ since_dispatch = TierFree
    /\ last_gap = TierFree
    /\ dispatches = 0
    /\ transients = 0
    /\ backoffs = <<>>
    /\ slept = 0
    /\ terminal_marks = [k \in Items |-> 0]
    /\ emitted = <<>>
    /\ finished_emits = 0
    /\ late_emits = 0
    /\ cancel_mark = NoMark
    /\ clean_run = CleanRun

\* The places in AllImages of the images a selection lists: the first images
\* up to MaxBatch, a/q.jpg with a/q.png (one name, two extensions) and
\* a/q.jpg with q.jpg (one name, two directories).
Selections ==
    {1..n : n \in 1..Min(MaxBatch, Len(AllImages))} \cup {{2, 3}, {2, 4}}

\* The window after a selection of one image or of a folder with up to
\* MaxBatch images, none of them processed before: populate_input_tree has
\* listed them as Ready.
SessionInit ==
    /\ NoDetailedWorker
    /\ \E S \in Selections :
        /\ file_list = Sorted(S)
        /\ input_files = Sorted(S)
        /\ disk = {AllImages[k] : k \in S}
        /\ input_status = [p \in {AllImages[k] : k \in S} |-> "Ready"]
    /\ auto_save \in BOOLEAN
    /\ pre_existing_results = EmptyDict
    /\ signals = <<>>
    /\ current_worker = FALSE
    /\ failed_inputs = EmptyDict
    /\ failed_order = <<>>
    /\ output_files = EmptyDict
    /\ summary = NoSummary
    /\ process_btn = TRUE
    /\ retry_failed_btn = FALSE
    /\ cancel_btn = FALSE
    /\ runs = <<>>
    /\ current_run = 0
    /\ scanners = <<>>
    /\ folder_scanner = 0
    /\ hash_order = InsertionOrder

SessionNext ==
    \/ StartProcessing
    \/ RetryFailedImages
    \/ CancelCurrentWorker
    \/ \E w \in DOMAIN runs : RunItemSucceeds(w)
    \/ \E w \in DOMAIN runs : RunItemFails(w)
    \/ \E w \in DOMAIN runs : RunFinishes(w)
    \/ AddResult
    \/ HandleError
    \/ ProcessingFinished

Session == SessionInit /\ [][SessionNext]_vars

(* ----------------------------- discovery ------------------------------ *)
\* "gemini_results" in name and "gemini" in name, for a name in lower case
HasGeminiResults(name) ==
    \E k \in DOMAIN name : name[k] \in {"gemini_results", "_gemini_results"}
HasGemini(name) ==
    \E k \in DOMAIN name : name[k] \in {"gemini", "_gemini", "gemini_results",
                                        "_gemini_results"}

\* Mutant: the name is compared as it is spelt, without lower().
is_result_directory_as_spelt(directory_path) ==
    LET name == BaseName(directory_path) IN
        \/ name[Len(name)] = "_gemini_results"
        \/ HasGeminiResults(name)

\* FolderScannerThread._is_result_directory   (workers.py, lines 19-22)
is_result_directory(directory_path) ==
    LET name == Lower(BaseName(directory_path)) IN
        \/ name[Len(name)] = "_gemini_results"
        \/ HasGeminiResults(name)

\* FolderScannerThread._is_result_file   (lines 24-26)
is_result_file(file) == HasGemini(Lower(Append(file.stem, file.ext)))

\* line 52, and the test of line 74
image_extensions == {".jpg", ".jpeg", ".png", ".bmp", ".tiff", ".tif", ".webp"}
IsImage(file) == LowerWord(file.ext) \in image_extensions

\* line 45
OutputExtensions == <<".jpg", ".jpeg", ".png", ".webp">>

\* Mutant: the folder gemini_results beside the image's folder is not probed.
candidate_dirs_of_three(path) ==
    LET image_dir == path.dir
        image_name == path.stem
        parent_dir == Parent(image_dir)
    IN  << image_dir,
           Join(image_dir, image_name \o <<"_gemini_results">>),
           Join(parent_dir, BaseName(image_dir) \o <<"_gemini_results">>),
           Join(parent_dir, BaseName(image_dir) \o <<"_gemini_results">>) >>

\* _find_existing_result, lines 30-40: candidate_dirs, its members numbered
\* in the order they are added. The paths are absolute, so parent_dir is never
\* the empty string.
candidate_dirs(path) ==
    LET image_dir == path.dir
        image_name == path.stem
        parent_dir == Parent(image_dir)
    IN  << image_dir,
           Join(image_dir, image_name \o <<"_gemini_results">>),
           Join(parent_dir, BaseName(image_dir) \o <<"_gemini_results">>),
           Join(parent_dir, <<"gemini_results">>) >>

\* No file: the None of _find_existing_result.
None == File(<<>>, <<>>, "")

\* _find_existing_result, lines 41-49: the first candidate that exists, the
\* directories taken in the order of the set and the extensions in the
\* order of the tuple.
find_existing_result(path, files, order) ==
    LET n == Len(OutputExtensions)
        candidate(k) ==
            File(candidate_dirs(path)[order[((k - 1) \div n) + 1]],
                 path.stem \o <<"_gemini">>,
                 OutputExtensions[((k - 1) % n) + 1])
        found == {k \in 1..(Len(order) * n) : candidate(k) \in files}
    IN  IF found = {} THEN None
        ELSE candidate(CHOOSE k \in found : \A j \in found : k <= j)

\* The directories of a set of files, and those directly in a directory.
Prefixes(dir) == {SubSeq(dir, 1, n) : n \in 0..Len(dir)}
Directories(files) == UNION {Prefixes(f.dir) : f \in files}
SubDirectories(files, dir) ==
    {d \in Directories(files) : d # <<>> /\ Parent(d) = dir}

\* The members of a set one by one, in the order the file system lists them:
\* one order, the same each time.
RECURSIVE Listing(_)
Listing(S) ==
    IF S = {} THEN <<>>
    ELSE LET x == CHOOSE y \in S : TRUE IN <<x>> \o Listing(S \ {x})

\* A FolderScannerThread: __init__ (lines 10-14) and the locals of run().
\* Kept beside it: the files that existed when it was started, the images a
\* worker had succeeded on by then, the directories whose files it
\* examined, the signals it has emitted, whether it ended in the except
\* branch, and whether stop() was called while it was walking.
Scanner(folder_path) ==
    [folder_path |-> folder_path, is_cancelled |-> FALSE,
     already_processed |-> <<>>, image_files |-> <<>>,
     walk |-> <<folder_path>>, finished |-> FALSE,
     emitted |-> <<>>, failed |-> FALSE, stopped_mid_walk |-> FALSE,
     tree |-> disk,
     succeeded_before |->
        {path \in UNION {DOMAIN runs[w].results : w \in DOMAIN runs} :
            \E w \in DOMAIN runs :
                /\ path \in DOMAIN runs[w].results
                /\ runs[w].results[path].success},
     examined |-> {}]

\* Mutant: line 81 has no continue, and an image with a result is listed as
\* pending too.
PendingAlways(image_files, full_path, existing_result) ==
    Append(image_files, full_path)

\* lines 78-82: the image goes to image_files unless a result was found
Pending(image_files, full_path, existing_result) ==
    IF existing_result # None THEN image_files
                              ELSE Append(image_files, full_path)

\* lines 78-80: and to already_processed when one was
Processed(already_processed, full_path, existing_result) ==
    IF existing_result # None
      THEN Append(already_processed, <<full_path, existing_result>>)
      ELSE already_processed

\* lines 68-82: the files of one directory, one after the other
RECURSIVE ScanFiles(_, _, _)
ScanFiles(files, image_files, already_processed) ==
    IF files = <<>>
      THEN [image_files |-> image_files,
            already_processed |-> already_processed]
    ELSE LET file == Head(files)
             existing_result == find_existing_result(file, disk, hash_order)
         IN  IF is_result_file(file) \/ ~IsImage(file)
               THEN ScanFiles(Tail(files), image_files, already_processed)
               ELSE ScanFiles(Tail(files),
                              Pending(image_files, file, existing_result),
                              Processed(already_processed, file,
                                        existing_result))

\* The folders the dialog of select_batch_folder is answered with.
Folders == {Photos, Join(Photos, <<"Old", "_Gemini_Results">>)}

\* select_batch_folder   (main_window.py, lines 217-227)
SelectBatchFolder ==
    /\ Len(scanners) < MaxScans
    /\ \E folder_path \in Folders :
        /\ scanners' = Append(scanners, Scanner(folder_path))
        /\ folder_scanner' = Len(scanners) + 1
    /\ file_list' = <<>>
    /\ input_files' = <<>>
    /\ pre_existing_results' = EmptyDict
    /\ failed_inputs' = EmptyDict
    /\ failed_order' = <<>>
    /\ retry_failed_btn' = RetryState(failed_inputs')
    \* self.unified_tree.clear()
    /\ input_status' = EmptyDict
    /\ UNCHANGED <<current_worker, output_files, summary, process_btn,
                   cancel_btn, auto_save, runs, current_run, disk, hash_order,
                   signals>>
    /\ UNCHANGED runVars

\* FolderScannerThread.run, lines 58-82: one turn of the loop over os.walk,
\* which lists the directories top-down and goes into those left in dirs.
WalkDirectory(s) ==
    LET t == scanners[s]
        root == Head(t.walk)
        dirs == SubDirectories(disk, root)
        kept == {d \in dirs : ~is_result_directory(d)}
        files == Listing({f \in disk : f.dir = root})
        scanned == ScanFiles(files, t.image_files, t.already_processed)
    IN  /\ ~t.finished
        /\ ~t.is_cancelled
        /\ t.walk # <<>>
        /\ scanners' =
              IF is_result_directory(root)
                THEN [scanners EXCEPT ![s].walk = Tail(@)]
                ELSE [scanners EXCEPT
                        ![s].walk = Listing(kept) \o Tail(@),
                        ![s].image_files = scanned.image_files,
                        ![s].already_processed = scanned.already_processed,
                        ![s].examined = @ \cup {root}]
        /\ UNCHANGED <<input_files, folder_scanner, hash_order, file_list,
                       pre_existing_results, auto_save, runs, current_run,
                       disk, signals>>
        /\ UNCHANGED guiVars
        /\ UNCHANGED runVars

\* FolderScannerThread.run, lines 83-85: the walk is over, or was left by the
\* break of line 60.
ScanEnds(s) ==
    LET t == scanners[s]
        found == [sig |-> "files_found", image_files |-> t.image_files,
                  scanner |-> s]
        count == [sig |-> "scan_finished", scanner |-> s,
                  total |-> Len(t.image_files) + Len(t.already_processed)]
    IN  /\ ~t.finished
        /\ t.is_cancelled \/ t.walk = <<>>
        /\ signals' = IF t.is_cancelled THEN signals
                                        ELSE signals \o <<found, count>>
        /\ scanners' = [scanners EXCEPT
                            ![s].finished = TRUE,
                            ![s].emitted =
                                IF t.is_cancelled THEN @
                                ELSE @ \o <<"files_found", "scan_finished">>]
        /\ UNCHANGED <<input_files, folder_scanner, hash_order, file_list,
                       pre_existing_results, auto_save, runs, current_run,
                       disk>>
        /\ UNCHANGED guiVars
        /\ UNCHANGED runVars

\* FolderScannerThread.run, lines 86-88: something raises while a directory
\* is walked, after the first n of its files have been looked at; none of
\* them is when the directory is a results directory (line 61).
WalkFails(s) ==
    LET t == scanners[s]
        root == Head(t.walk)
        files == Listing({f \in disk : f.dir = root})
        count == [sig |-> "scan_finished", scanner |-> s, total |-> 0]
    IN  /\ ~t.finished
        /\ ~t.is_cancelled
        /\ t.walk # <<>>
        /\ \E n \in 0..(IF is_result_directory(root) THEN 0 ELSE Len(files)) :
            LET scanned == ScanFiles(SubSeq(files, 1, n), t.image_files,
                                     t.already_processed)
            IN  scanners' = [scanners EXCEPT
                    ![s].image_files = scanned.image_files,
                    ![s].already_processed = scanned.already_processed,
                    ![s].finished = TRUE,
                    ![s].failed = TRUE,
                    ![s].emitted = Append(@, "scan_finished")]
        /\ signals' = Append(signals, count)
        /\ UNCHANGED <<input_files, folder_scanner, hash_order, file_list,
                       pre_existing_results, auto_save, runs, current_run,
                       disk>>
        /\ UNCHANGED guiVars
        /\ UNCHANGED runVars

\* clear_files, connected to the clear button   (main_window.py, lines
\* 303-310), with FolderScannerThread.stop (workers.py, lines 16-17): the
\* click that stops the scanner of the latest selection, once for a scanner
\* and before the first run of the session.
ClearFiles ==
    /\ folder_scanner # 0
    /\ ~scanners[folder_scanner].is_cancelled
    /\ runs = <<>>
    /\ scanners' =
          [scanners EXCEPT
              ![folder_scanner].is_cancelled = TRUE,
              ![folder_scanner].stopped_mid_walk =
                  ~scanners[folder_scanner].finished
                      /\ scanners[folder_scanner].walk # <<>>]
    /\ file_list' = <<>>
    /\ input_files' = <<>>
    /\ pre_existing_results' = EmptyDict
    /\ failed_inputs' = EmptyDict
    /\ failed_order' = <<>>
    /\ output_files' = EmptyDict
    /\ input_status' = EmptyDict
    /\ retry_failed_btn' = RetryState(failed_inputs')
    /\ UNCHANGED <<current_worker, summary, process_btn, cancel_btn, auto_save,
                   runs, current_run, disk, folder_scanner, hash_order,
                   signals>>
    /\ UNCHANGED runVars

\* The window is closed when nothing is running (closeEvent, lines 609-613)
\* and the application is started again: __init__ (lines 21-37) in a new
\* process, whose sets of strings have an iteration order of their own. The
\* scans and runs of the process that ended stay on record.
Restart ==
    /\ Len(scanners) < MaxScans
    /\ scanners # <<>>
    /\ \A s \in DOMAIN scanners : scanners[s].finished
    /\ \A w \in DOMAIN runs : runs[w].finished
    /\ signals = <<>>
    /\ hash_order' \in HashOrders
    /\ file_list' = <<>>
    /\ input_files' = <<>>
    /\ input_status' = EmptyDict
    /\ pre_existing_results' = EmptyDict
    /\ current_worker' = FALSE
    /\ failed_inputs' = EmptyDict
    /\ failed_order' = <<>>
    /\ output_files' = EmptyDict
    /\ summary' = NoSummary
    /\ process_btn' = TRUE
    /\ retry_failed_btn' = FALSE
    /\ cancel_btn' = FALSE
    /\ current_run' = 0
    /\ folder_scanner' = 0
    /\ UNCHANGED <<auto_save, runs, disk, scanners, signals>>
    /\ UNCHANGED runVars

\* sorted(paths): the paths of the images compare as their places in AllImages
SortedPaths(paths) == Sorted({k \in DOMAIN AllImages : AllImages[k] \in paths})

\* on_folder_scanned, connected to files_found   (main_window.py, 229-244)
OnFolderScanned ==
    /\ Delivered("files_found")
    /\ LET image_files == Head(signals).image_files
           already_processed ==
               IF folder_scanner = 0 THEN <<>>
               ELSE scanners[folder_scanner].already_processed
           pairs == {k \in DOMAIN already_processed :
                        already_processed[k][2] \in disk}
           keys == {already_processed[k][1] : k \in pairs}
           \* a later pair of the list replaces an earlier one with its key
           processed_map ==
               [path \in keys |->
                   already_processed[
                       CHOOSE k \in pairs :
                           /\ already_processed[k][1] = path
                           /\ \A j \in pairs :
                                already_processed[j][1] = path => j <= k][2]]
           pending_files ==
               SortedPaths({image_files[k] : k \in DOMAIN image_files} \ keys)
       IN  /\ pre_existing_results' = processed_map
           /\ input_files' = pending_files
           /\ file_list' = file_list \o pending_files
    /\ retry_failed_btn' = RetryState(failed_inputs)
    /\ signals' = Tail(signals)
    /\ UNCHANGED <<current_worker, failed_inputs, output_files, input_status,
                   summary, failed_order, process_btn, cancel_btn, auto_save,
                   runs, current_run, disk, scanners, folder_scanner,
                   hash_order>>
    /\ UNCHANGED runVars

\* on_folder_scan_complete, connected to scan_finished   (lines 246-251),
\* with populate_input_tree (lines 253-265)
OnFolderScanComplete ==
    /\ Delivered("scan_finished")
    /\ IF Head(signals).total > 0
         THEN /\ input_status' =
                    [path \in {input_files[k] : k \in DOMAIN input_files}
                        |-> "Ready"]
              /\ output_files' = Restored(output_files)
              /\ retry_failed_btn' =
                    IF pre_existing_results = EmptyDict
                      THEN retry_failed_btn
                      ELSE RetryState(failed_inputs)
         ELSE UNCHANGED <<input_status, output_files, retry_failed_btn>>
    /\ signals' = Tail(signals)
    /\ UNCHANGED <<current_worker, failed_inputs, summary, failed_order,
                   process_btn, cancel_btn>>
    /\ UNCHANGED sessionVars
    /\ UNCHANGED runVars

\* What is in the folder photos: two images to process, a file that is not an
\* image, and a results folder left by an earlier session, with an image in
\* it and one in a folder below.
OldResults == Join(Photos, <<"Old", "_Gemini_Results">>)
Tree == { AllImages[1], AllImages[4],
          File(FolderA, <<"notes">>, ".txt"),
          File(OldResults, <<"r">>, ".JPG"),
          File(Join(OldResults, <<"sub">>), <<"s">>, ".png") }

\* Outputs an earlier session may have left for photos/a/p.jpg: one in each of
\* the places _find_existing_result probes, and one with an extension it does
\* not probe.
EarlierOutputs ==
    { File(FolderA, <<"p", "_gemini">>, ".jpg"),
      File(Join(FolderA, <<"p", "_gemini_results">>), <<"p", "_gemini">>,
           ".png"),
      File(Join(Photos, <<"a", "_gemini_results">>), <<"p", "_gemini">>,
           ".webp"),
      File(Join(Photos, <<"gemini_results">>), <<"p", "_gemini">>, ".jpeg"),
      File(FolderA, <<"p", "_gemini">>, ".bmp") }

\* The window as __init__ leaves it, before any selection.
DiscoveryInit ==
    /\ NoDetailedWorker
    /\ \E earlier \in SUBSET EarlierOutputs :
        /\ Cardinality(earlier) <= MaxEarlier
        /\ disk = Tree \cup earlier
    /\ hash_order \in HashOrders
    /\ file_list = <<>>
    /\ input_files = <<>>
    /\ input_status = EmptyDict
    /\ auto_save = TRUE
    /\ pre_existing_results = EmptyDict
    /\ signals = <<>>
    /\ current_worker = FALSE
    /\ failed_inputs = EmptyDict
    /\ failed_order = <<>>
    /\ output_files = EmptyDict
    /\ summary = NoSummary
    /\ process_btn = TRUE
    /\ retry_failed_btn = FALSE
    /\ cancel_btn = FALSE
    /\ runs = <<>>
    /\ current_run = 0
    /\ scanners = <<>>
    /\ folder_scanner = 0

DiscoveryNext ==
    \/ SelectBatchFolder
    \/ \E s \in DOMAIN scanners : WalkDirectory(s)
    \/ \E s \in DOMAIN scanners : ScanEnds(s)
    \/ \E s \in DOMAIN scanners : WalkFails(s)
    \/ ClearFiles
    \/ Restart
    \/ OnFolderScanned
    \/ OnFolderScanComplete
    \/ StartProcessing
    \/ \E w \in DOMAIN runs : RunItemSucceeds(w)
    \/ \E w \in DOMAIN runs : RunItemFails(w)
    \/ \E w \in DOMAIN runs : RunFinishes(w)
    \/ AddResult
    \/ HandleError
    \/ ProcessingFinished

Discovery == DiscoveryInit /\ [][DiscoveryNext]_vars

(* ---------------------------- specification --------------------------- *)
Next ==
    \/ ForNext
    \/ WhileFirstItem
    \/ WhileWaitForRateLimit
    \/ SleepCheck
    \/ SleepInc
    \/ SleepRest
    \/ WaitForRateLimitReturn
    \/ CancelCheck
    \/ DispatchAfterCheck
    \/ CallSucceeds
    \/ CallRaises
    \/ Except
    \/ BackoffReturn
    \/ AfterHandler
    \/ AfterWhile
    \/ Finish
    \/ CancelProcessing
    \/ AddResult
    \/ HandleError
    \/ ProcessingFinished

Spec == Init /\ [][Next]_vars

\* The steps of the worker thread (QThread.run): the thread is scheduled until
\* run returns, and every external call returns or raises in the end.
WorkerNext ==
    \/ ForNext
    \/ WhileFirstItem
    \/ WhileWaitForRateLimit
    \/ SleepCheck
    \/ SleepInc
    \/ SleepRest
    \/ WaitForRateLimitReturn
    \/ CancelCheck
    \/ DispatchAfterCheck
    \/ CallSucceeds
    \/ CallRaises
    \/ Except
    \/ BackoffReturn
    \/ AfterHandler
    \/ AfterWhile
    \/ Finish

FairSpec == Spec /\ WF_vars(WorkerNext)

\* The slots of the window, run by the event loop of the GUI thread: a queued
\* signal is delivered in the end.
EventLoopNext ==
    \/ AddResult
    \/ HandleError
    \/ ProcessingFinished

LiveSpec == Spec /\ WF_vars(WorkerNext) /\ WF_vars(EventLoopNext)

\* The worker with an external call that raises any of AllErrorTexts, in runs
\* of up to MaxClassified items.
ClassificationInit == Init /\ total <= MaxClassified

ClassificationNext ==
    \/ ForNext
    \/ WhileFirstItem
    \/ WhileWaitForRateLimit
    \/ SleepCheck
    \/ SleepInc
    \/ SleepRest
    \/ WaitForRateLimitReturn
    \/ CancelCheck
    \/ DispatchAfterCheck
    \/ CallSucceeds
    \/ CallRaisesWith(AllErrorTexts)
    \/ Except
    \/ BackoffReturn
    \/ AfterHandler
    \/ AfterWhile
    \/ Finish
    \/ CancelProcessing
    \/ AddResult
    \/ HandleError
    \/ ProcessingFinished

Classification == ClassificationInit /\ [][ClassificationNext]_vars

(* ------------------------------- claims ------------------------------- *)
Terminal(k) == k \in DOMAIN results
FullBackoffs == <<300, 600, 1200>>

\* C1: no two dispatches of the external call in a run begin closer together
\* than rate_limit_delay; only the first dispatch of the run goes unpaced, so
\* the first attempt of item 2 also begins at least rate_limit_delay after the
\* dispatch of item 1.
C1_MinSpacing == last_gap >= rate_limit_delay

\* C2: the external call is dispatched at most max_retries + 1 = 4 times for
\* any single item, whatever errors, successes and cancellations occur.
C2_AtMostFourDispatches == dispatches <= 4

C2_Witness == dispatches = 4 /\ i > 1

\* C3: after four consecutive transient errors of an item, backoffs of exactly
\* 30 s, 60 s and 120 s were slept in that order, no backoff follows the
\* fourth error, and absent cancellation the item is recorded Failed and the
\* worker moves on to the next item.
C3_FourTransientErrorsFail ==
    /\ [](transients = 4 =>
            /\ backoffs = FullBackoffs
            /\ sleep_kind = NoSleep
            /\ (pc = "after_while" /\ ~is_cancelled =>
                    Terminal(i) /\ ~results[i].success))
    /\ [][(transients = 4 /\ pc = "after_while" /\ ~is_cancelled /\ pc' # pc)
            => (pc' = "for" /\ i' = i + 1)]_vars

C3_Witness ==
    /\ transients = 4
    /\ pc = "after_while"
    /\ ~is_cancelled
    /\ Terminal(i) /\ ~results[i].success
    /\ i < total

\* C4: for every item, the n-th backoff slept (n in 1..3) lasts exactly
\* 30 * 2^(n-1) seconds, whatever transient errors the earlier items of the
\* run went through.
C4_BackoffFormula ==
    /\ Len(backoffs) <= 3
    /\ \A n \in 1..Len(backoffs) : backoffs[n] = 300 * (2 ^ (n - 1))
    /\ sleep_kind = "backoff" =>
        /\ Len(backoffs) = transients - 1
        /\ slept + remaining = 300 * (2 ^ (transients - 1))

C4_Witness ==
    /\ i > 1
    /\ backoffs = FullBackoffs
    /\ Terminal(i - 1)
    /\ ~results[i - 1].success
    /\ IsRateLimitError(results[i - 1].error)

\* C5 (as claimed): an item that hit three transient errors in a row has slept
\* backoffs 30 s, 60 s, 120 s and ends Failed.
C5_ThreeTransientErrorsFail ==
    (transients >= 3 /\ Terminal(i)) =>
        (backoffs = FullBackoffs /\ ~results[i].success)

\* C5 (amended): an item that hit three transient errors in a row has slept
\* backoffs 30 s, 60 s, 120 s and is then dispatched a fourth time; it ends
\* Succeeded when that dispatch returns an image and Failed when it raises.
C5_ThreeTransientErrorsThenFourthDispatch ==
    /\ (transients >= 3 /\ pc = "after_while" /\ ~is_cancelled) => Terminal(i)
    /\ (transients >= 3 /\ Terminal(i)) =>
        /\ dispatches = 4
        /\ backoffs = FullBackoffs
        /\ (transients = 4 => ~results[i].success)
        /\ (results[i].success \/ transients = 4
                \/ ~IsRateLimitError(results[i].error))

C5_Witness == transients = 3 /\ Terminal(i) /\ results[i].success

\* The message names the exhausted retry budget ("after 3 retries").
NamesRetryBudget(message) == Contains(message, <<"after", "3", "retries">>)

\* C6: when an item fails on its 4th transient error, the error recorded for
\* it in the RunResult, and the message the consumer ends up holding for it
\* once every event is handled, name the exhausted retry budget.
C6_BudgetMessageReported ==
    (transients = 4 /\ Terminal(i)) =>
        /\ NamesRetryBudget(results[i].error)
        /\ (signals = <<>> /\ i \in DOMAIN failed_inputs) =>
                NamesRetryBudget(failed_inputs[i])

\* C7 (as claimed): when the run ends, completed or cancelled, every item has
\* exactly one terminal status and the entries of the RunResult are as many as
\* the items.
C7_EveryItemTerminal ==
    pc = "done" =>
        /\ \A k \in 1..total : terminal_marks[k] = 1
        /\ Cardinality(DOMAIN results) = total

\* C7 (amended): an item gets at most one terminal status (a RunResult entry,
\* Succeeded or Failed) in a run; when the run ends and cancel() was not
\* called, every item has exactly one and the final count equals the number of
\* items; after a cancellation only the items finished before it are counted.
C7_TerminalUnlessCancelled ==
    /\ \A k \in Items : /\ terminal_marks[k] <= 1
                        /\ terminal_marks[k] = 1 <=> Terminal(k)
    /\ DOMAIN results \subseteq 1..total
    /\ (pc = "done" /\ ~is_cancelled) => DOMAIN results = 1..total
    /\ summary.shown =>
        /\ summary.total_count = Cardinality(DOMAIN results)
        /\ ~is_cancelled => summary.total_count = total

C7_Witness ==
    /\ summary.shown
    /\ ~is_cancelled
    /\ total = 3
    /\ summary.total_count = 3
    /\ summary.success_count = 1

\* C8: once cancel() is called while the worker is inside a pacing wait or a
\* backoff sleep, no dispatch begins any more: the item in progress is not
\* retried, no later item is dispatched, and the items not yet started get no
\* RunResult entry, no result event and no error event.
C8_NoDispatchAfterCancelInWait ==
    cancel_mark.hit =>
        /\ cancel_mark.dispatched = 0
        /\ pc # "in_flight"
        /\ i = cancel_mark.item
        /\ \A k \in (cancel_mark.item + 1)..total :
            /\ ~Terminal(k)
            /\ terminal_marks[k] = 0
            /\ k \notin DOMAIN failed_inputs
            /\ k \notin DOMAIN output_files
            /\ input_status[k] = "Queued"
        /\ \A n \in 1..Len(signals) :
            signals[n].sig # "finished_all" =>
                signals[n].path <= cancel_mark.item

C8_Witness ==
    /\ cancel_mark.hit
    /\ cancel_mark.wait = "backoff"
    /\ cancel_mark.item < total
    /\ summary.shown

\* C9: when cancel() is called during the pacing wait before item k, the run
\* ends with a final aggregate whose keys are exactly the items 1..k-1, each
\* with the outcome it had reached; items k..N are absent from it.
C9_AggregateAfterCancelInPacingWait ==
    (cancel_mark.hit /\ cancel_mark.wait = "pacing") =>
        /\ results = cancel_mark.results
        /\ DOMAIN results = 1..(cancel_mark.item - 1)
        /\ \A n \in 1..Len(signals) :
            signals[n].sig = "finished_all" => signals[n].results = results
        /\ summary.shown => summary.total_count = cancel_mark.item - 1

C9_Witness ==
    /\ cancel_mark.hit
    /\ cancel_mark.wait = "pacing"
    /\ cancel_mark.item = 3
    /\ total = 3
    /\ summary.shown
    /\ summary.total_count = 2

\* C10: a run emits finished_all exactly once, after its item loop has ended
\* (by completion or by cancellation), and emits no progress, result or error
\* event after it.
C10_FinishedAllOnce ==
    /\ finished_emits <= 1
    /\ pc = "done" <=> finished_emits = 1
    /\ late_emits = 0
    /\ \A n \in 1..Len(signals) :
        signals[n].sig = "finished_all" => n = Len(signals)

C10_Witness ==
    /\ pc = "done"
    /\ finished_emits = 1
    /\ cancel_mark.hit
    /\ DOMAIN results # 1..total

PermanentFailure(k) ==
    Terminal(k) /\ ~results[k].success /\ ~IsRateLimitError(results[k].error)

\* C12 (as claimed): an item whose external call fails with an error that is
\* not transient was dispatched exactly once in the run, slept no backoff, and
\* is recorded Failed.
C12_PermanentErrorDispatchedOnce ==
    PermanentFailure(i) => (dispatches = 1 /\ backoffs = <<>>)

\* C12 (amended): an error that is not transient ends the item at once: no
\* backoff is slept for it and the item is not dispatched again, so its
\* dispatches are one more than the transient errors that came before (exactly
\* one, and no backoff at all, when it is the item's first error); unless
\* cancel() was called, the item is recorded Failed with that error.
C12_PermanentErrorEndsItem ==
    /\ []((pc \in {"except", "handled"} /\ ~IsRateLimitError(raised)) =>
            /\ sleep_kind = NoSleep
            /\ dispatches = transients + 1
            /\ Len(backoffs) = transients)
    /\ [](PermanentFailure(i) =>
            /\ pc \in {"after_while", "finish", "done"}
            /\ dispatches = transients + 1
            /\ Len(backoffs) = transients
            /\ (transients = 0 => (dispatches = 1 /\ backoffs = <<>>)))
    /\ [][(pc = "handled" /\ ~IsRateLimitError(raised) /\ ~is_cancelled
                /\ pc' # pc)
            => (pc' = "after_while"
                    /\ results' = Put(results, i, Failure(raised)))]_vars

C12_Witness ==
    /\ PermanentFailure(i)
    /\ i > 1
    /\ transients = 1
    /\ dispatches = 2
    /\ backoffs = <<300>>
    /\ ~is_cancelled

SomeFailed == \E k \in DOMAIN results : ~results[k].success

\* C13: a Failed item (permanent error or retry budget exhausted) does not
\* abort the batch: unless cancel() is called, the run goes on to dispatch
\* every item after it and ends with one RunResult entry, Succeeded or Failed,
\* per input.
C13_FailedItemDoesNotAbort ==
    /\ []((SomeFailed /\ ~is_cancelled) =>
            /\ \A k \in 1..total : k < i => Terminal(k)
            /\ (pc = "done" => DOMAIN results = 1..total))
    /\ [](Terminal(i) => dispatches >= 1)
    /\ (SomeFailed ~>
            (is_cancelled \/ (pc = "done" /\ DOMAIN results = 1..total)))

C13_Witness ==
    /\ pc = "done"
    /\ ~is_cancelled
    /\ total = 3
    /\ DOMAIN results = 1..3
    /\ ~results[1].success
    /\ ~IsRateLimitError(results[1].error)
    /\ ~results[2].success
    /\ IsRateLimitError(results[2].error)
    /\ results[3].success

\* Time slept in the current wait when cancel() was called.
SleptAtCancel == IF cancel_mark.hit THEN cancel_mark.slept ELSE 0

\* C14: the pacing wait and the backoff sleep re-check the flag before every
\* polling increment: once cancel() has been called, at most one further
\* increment (0.2 s for pacing, 0.5 s for backoff) is slept before the wait
\* returns, however long the wait was to last.
C14_CancelledWaitReturnsWithinOnePoll ==
    (is_cancelled /\ InWait) =>
        /\ slept - SleptAtCancel >= 0
        /\ slept - SleptAtCancel <= PollInterval
        /\ (pc = "sleep_inc" => slept = SleptAtCancel)
        /\ (~cancel_mark.hit => slept = 0)

C14_Witness ==
    /\ is_cancelled
    /\ cancel_mark.hit
    /\ pc = "sleep_return"
    /\ sleep_kind = "backoff"
    /\ slept = cancel_mark.slept + BackoffPoll
    /\ remaining > 1000

\* C33: every run terminates: when each external call returns or raises in
\* the end, the run emits finished_all, once, whatever the inputs, the errors
\* and the cancellations; and the consumer, which keeps Process disabled until
\* then, enables it again.
C33_RunTerminates ==
    /\ <>(pc = "done" /\ finished_emits = 1)
    /\ [](process_btn => (pc = "done" /\ finished_emits = 1))
    /\ <>[](process_btn /\ ~current_worker /\ ~cancel_btn /\ signals = <<>>)

\* A cancelled run of three items, one of them failed, has ended and Process
\* is enabled again.
C33_Witness ==
    /\ pc = "done"
    /\ total = 3
    /\ is_cancelled
    /\ \E k \in DOMAIN results : ~results[k].success
    /\ process_btn
    /\ signals = <<>>

\* C34: the items are processed one after the other in the order of the
\* input sequence: while a call for item i is in flight every item before i
\* has its entry, Succeeded or Failed; a call is dispatched only when none is
\* in flight; and the worker goes from an item to the next one only, never
\* back, so no item is dispatched again after a later one.
C34_ItemsInSequence ==
    /\ [](pc = "in_flight" => \A k \in 1..(i - 1) : Terminal(k))
    /\ [][dispatches' = dispatches + 1
            => (pc # "in_flight" /\ pc' = "in_flight")]_vars
    /\ [][i' = i \/ (i' = i + 1 /\ pc # "in_flight")]_vars

\* The first call for item 3 is in flight; item 1 has failed and item 2 has
\* succeeded.
C34_Witness ==
    /\ pc = "in_flight"
    /\ i = 3
    /\ dispatches = 1
    /\ DOMAIN results = {1, 2}
    /\ ~results[1].success
    /\ results[2].success

\* last_request_time is set to the current time: the time since it falls to 0.
LastRequestTimeWritten ==
    time_since_last_request' = 0 /\ time_since_last_request # 0

\* _wait_for_rate_limit returns True: run goes on to line 205.
PacingWaitReturnsTrue ==
    /\ pc = "while" \/ (pc = "sleep_return" /\ sleep_kind = "pacing")
    /\ pc' = "cancel_check"

\* _wait_for_rate_limit returns after its sleep came back with the flag set.
PacingWaitCutShort ==
    /\ pc = "sleep_return"
    /\ sleep_kind = "pacing"
    /\ is_cancelled
    /\ pc' # pc

\* C35: the pacing wait sets last_request_time to the current time exactly
\* when it completes and returns True; cut short by cancellation it returns
\* False, which ends the item, and leaves last_request_time as it was; and
\* nothing else writes last_request_time.
C35_LastRequestTimeWrittenByCompletedWait ==
    /\ [][LastRequestTimeWritten => PacingWaitReturnsTrue]_vars
    /\ [][PacingWaitReturnsTrue => time_since_last_request' = 0]_vars
    /\ [][PacingWaitCutShort =>
              /\ pc' = "after_while"
              /\ time_since_last_request' = time_since_last_request]_vars

\* The wait before item 3 was cut short by cancel(), after the wait before
\* item 2 had completed: the time since last_request_time is not 0.
C35_Witness ==
    /\ pc = "after_while"
    /\ i = 3
    /\ cancel_mark.hit
    /\ cancel_mark.wait = "pacing"
    /\ cancel_mark.item = 3
    /\ dispatches = 0
    /\ time_since_last_request # 0

\* The text holds "rate limit", "quota exceeded" or "429", in small letters,
\* in capitals or capitalised.
HoldsMarker(text) ==
    \/ \E k \in 1..(Len(text) - 1) :
          /\ text[k] \in {"rate", "Rate", "RATE"}
          /\ text[k + 1] \in {"limit", "Limit", "LIMIT"}
    \/ \E k \in 1..(Len(text) - 1) :
          /\ text[k] \in {"quota", "Quota", "QUOTA"}
          /\ text[k + 1] \in {"exceeded", "Exceeded", "EXCEEDED"}
    \/ \E k \in 1..Len(text) : text[k] = "429"

\* C36: an error of the external call is taken as transient if and only if
\* its text, compared case-insensitively, holds "rate limit", "quota exceeded"
\* or "429": the handler of a run that is not cancelled increments the
\* attempt counter for such a text and for no other, nothing else increments
\* it, and the call is retried only after such a text.
C36_TransientByItsText ==
    /\ [][(pc = "except" /\ ~is_cancelled /\ pc' # pc) =>
              IF HoldsMarker(raised)
                THEN retry_count' = retry_count + 1
                ELSE /\ retry_count' = retry_count
                     /\ pc' = "handled"
                     /\ handled' = FALSE]_vars
    /\ [][retry_count' = retry_count + 1 =>
              (pc = "except" /\ HoldsMarker(raised))]_vars
    /\ [][(pc = "handled" /\ pc' = "while") => HoldsMarker(raised)]_vars

\* The call is about to be retried after QUOTA EXCEEDED, written in capitals.
C36_Witness ==
    /\ pc = "handled"
    /\ handled
    /\ ~is_cancelled
    /\ raised = <<"QUOTA", "EXCEEDED">>
    /\ retry_count = 1

(* ---------------------- claims: the items of a run -------------------- *)
\* The events of kind sig emitted for the current item.
Events(sig) == Cardinality({k \in DOMAIN emitted : emitted[k].sig = sig})

\* The while loop of the current item has been left.
ItemOver == pc = "after_while"

\* C24: the attempt counter retry_count is 0 at the first dispatch of every
\* item of a run, whatever happened to the item before it.
C24_CounterZeroAtFirstDispatch ==
    (pc = "in_flight" /\ dispatches = 1) => retry_count = 0

\* The first call for an item is in flight, and the item before it has used
\* up its retries, which left the counter at 4.
C24_Witness ==
    /\ pc = "in_flight"
    /\ dispatches = 1
    /\ i > 1
    /\ (i - 1) \in DOMAIN results
    /\ ~results[i - 1].success
    /\ IsRateLimitError(results[i - 1].error)

\* The current item has succeeded after k transient errors.
SucceededAfter(k) ==
    /\ ItemOver
    /\ i \in DOMAIN results
    /\ results[i].success
    /\ transients = k

\* C25: an item that hits k transient errors (1 <= k <= 3) and then succeeds
\* ends Succeeded: exactly k backoffs were slept, of 30 s, 60 s and 120 s in
\* that order, the attempt counter is k at success, one result event and no
\* error event was emitted for it, and its entry has success = True.
C25_SucceedsAfterTransientErrors ==
    \A k \in 1..max_retries :
        SucceededAfter(k) =>
            /\ backoffs = SubSeq(FullBackoffs, 1, k)
            /\ retry_count = k
            /\ dispatches = k + 1
            /\ Events("image_processed") = 1
            /\ Events("error_occurred") = 0
            /\ results[i] = Success(i)

\* Item 2 has succeeded after three transient errors and three backoffs.
C25_Witness ==
    SucceededAfter(3) /\ i = 2 /\ backoffs = FullBackoffs

\* C26: in a run of N items with no cancellation in which every external call
\* succeeds, exactly N dispatches happen, exactly N result events and no error
\* event are emitted, and the final aggregate holds all N inputs, each with
\* success = True and its output path; the summary shown is N/N.
C26_AllSucceed ==
    (pc = "done" /\ ~is_cancelled /\ clean_run.clean) =>
        /\ clean_run.dispatches = total
        /\ DOMAIN results = 1..total
        /\ \A k \in 1..total : results[k] = Success(k)
        /\ \A n \in DOMAIN signals : signals[n].sig # "error_occurred"
        /\ failed_inputs = EmptyDict
        /\ Cardinality(DOMAIN output_files)
              + Cardinality({n \in DOMAIN signals :
                                signals[n].sig = "image_processed"}) = total
        /\ \A n \in DOMAIN signals :
              signals[n].sig = "finished_all" => signals[n].results = results
        /\ summary.shown =>
              summary.success_count = total /\ summary.total_count = total

\* The summary 3/3 is shown after a run of three items.
C26_Witness ==
    /\ pc = "done"
    /\ ~is_cancelled
    /\ clean_run.clean
    /\ total = 3
    /\ summary.shown
    /\ signals = <<>>

\* C27: for every item that ends Failed, exactly one error event is emitted
\* for that item in that run; an item that ends Succeeded gets none.
C27_OneErrorEventPerFailure ==
    (ItemOver /\ i \in DOMAIN results) =>
        Events("error_occurred") = IF results[i].success THEN 0 ELSE 1

\* C28: at most one dispatch of the external call begins after the
\* cancellation flag has been set, wherever in the run cancel() falls, and no
\* pacing wait or backoff sleep runs to completion after it: no wait returns
\* True, at most the time.sleep of one poll that had been decided on is slept,
\* and not both a dispatch and a sleep follow the flag.
C28_CancelStopsDispatchesAndWaits ==
    /\ cancel_mark.after_dispatches <= 1
    /\ cancel_mark.after_completed = 0
    /\ cancel_mark.after_slept <= BackoffPoll
    /\ cancel_mark.after_dispatches = 0 \/ cancel_mark.after_slept = 0

\* A dispatch began after the flag was set, for an item after the first, and
\* the run has ended.
C28_Witness ==
    cancel_mark.after_dispatches = 1 /\ i > 1 /\ pc = "done"

\* C29: the aggregate agrees with the events of the run: an input has a
\* success entry if and only if a result event was emitted for it, and a
\* failure entry if and only if an error event was emitted for it.
C29_AggregateAgreesWithEvents ==
    ItemOver =>
        /\ (i \in DOMAIN results /\ results[i].success)
              <=> Events("image_processed") > 0
        /\ (i \in DOMAIN results /\ ~results[i].success)
              <=> Events("error_occurred") > 0

(* --------------------------- claims: session -------------------------- *)
\* The workers that were started and have not emitted finished_all yet.
ActiveRuns == {w \in DOMAIN runs : ~runs[w].finished}

\* C11: at most one ProcessingWorker is active at any time: whatever the user
\* does (Process, Retry Failed, Cancel), no worker is started while one
\* started before has not yet emitted finished_all.
C11_AtMostOneActiveRun == Cardinality(ActiveRuns) <= 1

\* C15: a retry run (start_processing with preserve_outputs=True) discards no
\* recorded success: every entry output_files held when the run was asked for
\* is still there, unchanged, while the run goes on.
C15_RetryKeepsOutputs ==
    \A w \in ActiveRuns :
        runs[w].retry =>
            \A p \in DOMAIN runs[w].outputs_before :
                /\ p \in DOMAIN output_files
                /\ output_files[p] = runs[w].outputs_before[p]

\* C17: one rule gives the expected output path to skip-detection and to the
\* worker: for every worker started and every image handed to it, the path
\* filter_existing_outputs looked for equals the path the worker passes to the
\* external call as the place to write.
C17_OneOutputPathRule ==
    \A w \in DOMAIN runs :
        \A k \in DOMAIN runs[w].image_paths :
            LET path == runs[w].image_paths[k] IN
                WorkerOutputPath(runs[w].output_dir, path)
                    = get_expected_output_path(path, runs[w].checked_dir)

\* C30: within one run, distinct input paths are written to distinct output
\* paths: no two items of a run that succeeded were given the same output
\* path, also when they share a name across directories or differ only in
\* their extension.
C30_DistinctOutputPaths ==
    \A w \in DOMAIN runs :
        \A p, q \in DOMAIN runs[w].results :
            ( /\ p # q
              /\ runs[w].results[p].success
              /\ runs[w].results[q].success )
            => runs[w].results[p].output_path # runs[w].results[q].output_path

\* C32: once every run has ended and all its events have been handled, no
\* input path is recorded both as succeeded (a key of output_files) and as
\* failed (a key of failed_inputs), whatever Process, Retry Failed and Cancel
\* did and in whatever order the events came.
C32_SucceededOrFailedNotBoth ==
    (signals = <<>> /\ \A w \in DOMAIN runs : runs[w].finished)
        => DOMAIN output_files \cap DOMAIN failed_inputs = {}

(* -------------------------- claims: discovery ------------------------- *)
\* A scan that ran to its end: not cancelled before it, no exception.
Completed(s) ==
    /\ scanners[s].finished
    /\ ~scanners[s].failed
    /\ scanners[s].emitted # <<>>

PendingOf(s) ==
    {scanners[s].image_files[k] : k \in DOMAIN scanners[s].image_files}
ProcessedOf(s) ==
    {scanners[s].already_processed[k][1] :
        k \in DOMAIN scanners[s].already_processed}

\* The results-directory pattern: the name holds gemini_results, in any case.
ResultsDirectoryName(name) ==
    \E k \in DOMAIN name :
        LowerWord(name[k]) \in {"gemini_results", "_gemini_results"}

\* dir is, or lies below, a results directory of the tree scanned from
\* folder_path.
InOrBelowResults(dir, folder_path) ==
    \E n \in Len(folder_path)..Len(dir) : ResultsDirectoryName(dir[n])

Below(dir, folder_path) ==
    /\ Len(dir) >= Len(folder_path)
    /\ SubSeq(dir, 1, Len(folder_path)) = folder_path

\* A candidate image of the scan from folder_path: recognised extension, name
\* not of a result file, not under a pruned directory.
Candidate(file, folder_path) ==
    /\ Below(file.dir, folder_path)
    /\ ~InOrBelowResults(file.dir, folder_path)
    /\ IsImage(file)
    /\ ~is_result_file(file)

\* An output <name>_gemini.<ext> of the image exists in one of the places.
OutputIn(places, file) ==
    \E dir \in places, k \in DOMAIN OutputExtensions :
        File(dir, file.stem \o <<"_gemini">>, OutputExtensions[k]) \in disk

\* The image's own directory, the subfolder <name>_gemini_results and the
\* sibling folder <parent-dir-name>_gemini_results.
ThreePlaces(file) ==
    { file.dir,
      Join(file.dir, file.stem \o <<"_gemini_results">>),
      Join(Parent(file.dir), BaseName(file.dir) \o <<"_gemini_results">>) }

\* And the folder gemini_results beside the image's directory.
FourPlaces(file) ==
    ThreePlaces(file) \cup {Join(Parent(file.dir), <<"gemini_results">>)}

\* C16: re-runs are idempotent: an image a worker had succeeded on before a
\* scan of the folder began is not in the pending list of that scan, and no
\* worker started after the scan is handed it again.
C16_RerunsIdempotent ==
    /\ \A s \in DOMAIN scanners :
        Completed(s) =>
            \A path \in scanners[s].succeeded_before :
                Below(path.dir, scanners[s].folder_path)
                    => path \notin PendingOf(s)
    /\ \A w \in DOMAIN runs :
        \A k \in DOMAIN runs[w].image_paths :
            runs[w].image_paths[k] \notin runs[w].rescanned

\* C18: Discovery prunes every directory whose name matches the
\* results-directory pattern: no file in or below such a directory is in the
\* pending list or a key of already_processed, and the files of no such
\* directory are examined.
C18_ResultDirectoriesPruned ==
    \A s \in DOMAIN scanners :
        /\ \A file \in PendingOf(s) \cup ProcessedOf(s) :
            ~InOrBelowResults(file.dir, scanners[s].folder_path)
        /\ \A dir \in scanners[s].examined :
            ~InOrBelowResults(dir, scanners[s].folder_path)

\* A scan of photos is over, it reported images, and the tree holds an image
\* in a results directory and one below it.
C18_Witness ==
    \E s \in DOMAIN scanners :
        /\ Completed(s)
        /\ scanners[s].folder_path = Photos
        /\ PendingOf(s) \cup ProcessedOf(s) # {}
        /\ \E r \in disk :
            /\ IsImage(r) /\ ~is_result_file(r)
            /\ ResultsDirectoryName(BaseName(r.dir))
        /\ \E r \in disk :
            /\ IsImage(r) /\ ~is_result_file(r)
            /\ ~ResultsDirectoryName(BaseName(r.dir))
            /\ InOrBelowResults(r.dir, Photos)

\* Every candidate image of a completed scan over a tree that has not changed
\* since is already-processed if an output exists in one of the places, and
\* pending if none does.
ClassifiedBy(Places(_)) ==
    \A s \in DOMAIN scanners :
        Completed(s) /\ scanners[s].tree = disk =>
            \A file \in disk :
                Candidate(file, scanners[s].folder_path) =>
                    /\ file \in ProcessedOf(s) <=> OutputIn(Places(file), file)
                    /\ file \in PendingOf(s) <=> ~OutputIn(Places(file), file)

\* C19 as stated: a candidate image is already-processed if and only if an
\* output <name>_gemini.<ext> exists in the image's own directory, in the
\* subfolder <name>_gemini_results or in the sibling folder
\* <parent-dir-name>_gemini_results; otherwise it is pending.
C19_ThreePlacesProbed == ClassifiedBy(ThreePlaces)

\* C19, amended: a candidate image is already-processed if and only if an
\* output <name>_gemini.<ext> exists, for one of the extensions .jpg, .jpeg,
\* .png, .webp, in one of four places: the three above or the folder
\* gemini_results beside the image's directory; otherwise it is pending.
C19_FourPlacesProbed == ClassifiedBy(FourPlaces)

\* A completed scan of an unchanged tree found one image processed, by an
\* output in the folder gemini_results alone, and left another pending.
C19_Witness ==
    \E s \in DOMAIN scanners :
        /\ Completed(s)
        /\ scanners[s].tree = disk
        /\ PendingOf(s) # {}
        /\ \E file \in ProcessedOf(s) :
            /\ ~OutputIn(ThreePlaces(file), file)
            /\ OutputIn(FourPlaces(file), file)

NoDuplicates(seq) ==
    \A j, k \in DOMAIN seq : seq[j] = seq[k] => j = k

\* C20: for every completed scan, pending and already_processed are disjoint
\* and together hold every candidate image exactly once, the count of
\* scan_finished is |pending| + |already_processed|, and the consumer's pending
\* files and processed map are disjoint too.
C20_PendingAndProcessedPartition ==
    /\ \A s \in DOMAIN scanners :
        Completed(s) =>
            /\ PendingOf(s) \cap ProcessedOf(s) = {}
            /\ NoDuplicates(scanners[s].image_files)
            /\ NoDuplicates(scanners[s].already_processed)
            /\ Cardinality(ProcessedOf(s)) = Len(scanners[s].already_processed)
            /\ PendingOf(s) \cup ProcessedOf(s)
                  = {file \in disk : Candidate(file, scanners[s].folder_path)}
    /\ \A k \in DOMAIN signals :
        signals[k].sig = "scan_finished" /\ Completed(signals[k].scanner) =>
            signals[k].total
                = Cardinality(PendingOf(signals[k].scanner))
                    + Cardinality(ProcessedOf(signals[k].scanner))
    /\ {input_files[k] : k \in DOMAIN input_files}
          \cap DOMAIN pre_existing_results = {}

\* scan_finished(2) is on its way for a scan with one image pending and one
\* already processed.
C20_Witness ==
    \E k \in DOMAIN signals :
        /\ signals[k].sig = "scan_finished"
        /\ signals[k].total = 2
        /\ PendingOf(signals[k].scanner) # {}
        /\ ProcessedOf(signals[k].scanner) # {}
\* The pairs (image, output) of the scan's already_processed.
ProcessedMapOf(s) ==
    {scanners[s].already_processed[k] :
        k \in DOMAIN scanners[s].already_processed}

\* C21: Discovery is idempotent: two completed scans of one folder over a tree
\* that has not changed yield the same pending set and the same
\* already_processed map, with the same output path for each key, also when
\* more than one candidate output exists for an input. Files are never
\* deleted, so a tree that equals the disk now was the disk all along.
C21_DiscoveryIdempotent ==
    \A s, t \in DOMAIN scanners :
        ( /\ Completed(s)
          /\ Completed(t)
          /\ scanners[s].folder_path = scanners[t].folder_path
          /\ scanners[s].tree = disk
          /\ scanners[t].tree = disk )
        => /\ PendingOf(s) = PendingOf(t)
           /\ ProcessedMapOf(s) = ProcessedMapOf(t)

\* C22: Discovery emits the pending list and the completion event once
\* scanning finishes or is cancelled: every scan that has ended without an
\* exception, stopped by stop() or not, has emitted files_found and
\* scan_finished.
C22_StoppedScanStillEmits ==
    \A s \in DOMAIN scanners :
        (scanners[s].finished /\ ~scanners[s].failed)
            => scanners[s].emitted = <<"files_found", "scan_finished">>

\* The events of scan s still to be handled.
Undelivered(s) == {k \in DOMAIN signals : signals[k].scanner = s}

\* C23: a scan that raised while walking the tree has emitted the completion
\* event with count 0 and no pending list, and once that event has been
\* handled the consumer that selected the folder holds an empty pending list
\* and an empty already-processed map.
C23_FailedScanLeavesNothing ==
    \A s \in DOMAIN scanners :
        scanners[s].failed =>
            /\ scanners[s].finished
            /\ scanners[s].emitted = <<"scan_finished">>
            /\ \A k \in Undelivered(s) :
                  signals[k].sig = "scan_finished" /\ signals[k].total = 0
            /\ (folder_scanner = s /\ Undelivered(s) = {}) =>
                  /\ file_list = <<>>
                  /\ input_files = <<>>
                  /\ pre_existing_results = EmptyDict

\* C31: Discovery hands off each scan result once and consistently: whenever
\* on_folder_scanned applies a pending list, the already_processed list it
\* reads belongs to the scan that emitted the pending list, and that scan has
\* ended, so it appends to the list no more; also when a second scan is
\* started before the first has finished.
C31_HandOffFromOneScan ==
    [][OnFolderScanned =>
          /\ folder_scanner = Head(signals).scanner
          /\ scanners[folder_scanner].finished]_vars

====
